---- MODULE Spec2Model ----
(***************************************************************************)
(* A model of playwright_recaptcha's reCAPTCHA v2 solver:                  *)
(*   - RecaptchaBox._get_recaptcha_frame_pairs / from_frames (locator),    *)
(*   - SyncSolver._response_callback (traffic classifier),                 *)
(*   - SyncSolver.solve_recaptcha with _click_checkbox and the two         *)
(*     modality solvers (orchestrator).                                    *)
(* Strings whose content the code inspects are sequences: a frame name is  *)
(* a sequence of characters, a URL a sequence of path segments, a response *)
(* body a sequence of symbols.  An Optional value is a sequence of length  *)
(* 0 (None) or 1 (the value).                                              *)
(***************************************************************************)
EXTENDS Integers, Sequences, FiniteSets, TLC

\* ------------------------------------------------------------------ bounds
MaxBodyLen == 3
MaxFrames == 4
MaxPageFrames == 2
MaxAttempts == 2
MaxWaitTicks == 1
MaxTextLen == 1
MaxTimeout == 2
MaxFailures == 2
MaxPending == 1
MaxTiles == 3
MaxVersions == 1
MaxClock == 86430

\* ---------------------------------------------------------------- Optional
None == << >>
Some(x) == << x >>

\* ------------------------------------------------------- sequences of a set
RECURSIVE SeqsUpTo(_, _)
SeqsUpTo(S, n) ==
    IF n = 0 THEN { << >> }
    ELSE LET shorter == SeqsUpTo(S, n - 1)
         IN  shorter \cup { Append(s, x) : s \in { t \in shorter : Len(t) = n - 1 }, x \in S }

\* Python's `s in t` on strings: s occurs in t as a contiguous substring.
IsSubstring(s, t) ==
    \E i \in 0 .. (Len(t) - Len(s)) : SubSeq(t, i + 1, i + Len(s)) = s

\* ---------------------------------------------------- URL pattern matching
\* re.search("/recaptcha/(api2|enterprise)/<endpoint>", url): the three path
\* segments occur consecutively anywhere in the URL.
Backends == { "api2", "enterprise" }

UrlSearch(endpoint, url) ==
    \E i \in 1 .. (Len(url) - 2) :
        /\ url[i] = "recaptcha"
        /\ url[i + 1] \in Backends
        /\ url[i + 2] = endpoint

\* --------------------------------------------------------- token extraction
\* Body symbols: "M" is the marker text  "uvresp","  (it begins and ends with
\* a double quote), "q" a double quote, "n" a newline, the rest ordinary
\* characters.
BodyAlphabet == { "M", "q", "a", "b", "n" }
Bodies == SeqsUpTo(BodyAlphabet, MaxBodyLen)

HasQuote(c) == c \in { "q", "M" }

\* The position of the first quote after position i, or 0.
FirstQuoteAfter(body, i) ==
    LET js == { j \in (i + 1) .. Len(body) : HasQuote(body[j]) }
    IN  IF js = {} THEN 0 ELSE CHOOSE j \in js : \A k \in js : j <= k

\* re.search('"uvresp","(.*?)"', body) succeeds at marker position i when a
\* quote follows with no newline before it ("." does not match a newline).
MatchesAt(body, i) ==
    /\ body[i] = "M"
    /\ FirstQuoteAfter(body, i) # 0
    /\ \A k \in (i + 1) .. (FirstQuoteAfter(body, i) - 1) : body[k] # "n"

\* token_match: None, or Some(group(1)) of the leftmost match; the group is
\* lazy, so it ends before the first quote.
TokenMatch(body) ==
    LET starts == { i \in 1 .. Len(body) : MatchesAt(body, i) }
    IN  IF starts = {} THEN None
        ELSE LET i == CHOOSE i \in starts : \A k \in starts : i <= k
             IN  Some(SubSeq(body, i + 1, FirstQuoteAfter(body, i) - 1))

\* --------------------------------------------------------- frames of a page
\* A frame: its URL and name, whether it is still attached, and the state of
\* the controls the locator asks about (checkbox in the anchor frame; the
\* audio / image challenge buttons in the bframe frame).
AnchorUrl == << "recaptcha", "api2", "anchor" >>
BframeUrl == << "www", "recaptcha", "enterprise", "bframe" >>
OtherUrl == << "recaptcha", "other", "anchor" >>

Frame(url, name, att, cbVis, cbChk, audVis, audEn, imgVis, imgEn) ==
    [ url |-> url, name |-> name, att |-> att, cbVis |-> cbVis, cbChk |-> cbChk,
      audVis |-> audVis, audEn |-> audEn, imgVis |-> imgVis, imgEn |-> imgEn ]

AnchorNames == { << "a", "-", "x" >>, << "a", "-", "y" >> }
BframeNames == { << "c", "-", "x" >>, << "c", "-", "y" >> }

\* detached / checkbox hidden / visible and unchecked / visible and checked
AnchorFrames ==
    { Frame(AnchorUrl, n, v[1], v[2], v[3], FALSE, FALSE, FALSE, FALSE) :
        n \in AnchorNames,
        v \in { << FALSE, FALSE, FALSE >>, << TRUE, FALSE, FALSE >>,
                << TRUE, TRUE, FALSE >>, << TRUE, TRUE, TRUE >> } }

\* detached / no challenge control / audio button active / audio button
\* visible but disabled / image button active
BframeFrames ==
    { Frame(BframeUrl, n, v[1], FALSE, FALSE, v[2], v[3], v[4], v[5]) :
        n \in BframeNames,
        v \in { << FALSE, FALSE, FALSE, FALSE, FALSE >>,
                << TRUE, FALSE, FALSE, FALSE, FALSE >>,
                << TRUE, TRUE, TRUE, FALSE, FALSE >>,
                << TRUE, TRUE, FALSE, FALSE, FALSE >>,
                << TRUE, FALSE, FALSE, TRUE, TRUE >> } }

OtherFrames ==
    { Frame(OtherUrl, << "a", "-", "x" , "o" >>, TRUE, TRUE, FALSE, FALSE, FALSE, FALSE, FALSE) }

FrameMenu == AnchorFrames \cup BframeFrames \cup OtherFrames

\* The frame lists of a page: every frame (name) occurs at most once.
RECURSIVE ListsOver(_, _)
ListsOver(menu, n) ==
    IF n = 0 THEN { << >> }
    ELSE LET shorter == ListsOver(menu, n - 1)
         IN  shorter \cup
             UNION { { Append(s, f) : f \in { g \in menu :
                                               \A k \in 1 .. (n - 1) : s[k].name # g.name } } :
                     s \in { t \in shorter : Len(t) = n - 1 } }

FrameLists(n) == ListsOver(FrameMenu, n)

\* The frames of the page a solver works on: one widget's anchor and bframe
\* in any of their states, the bframe of another widget, and a frame that is
\* no part of a widget.
PageFrameMenu ==
    { f \in FrameMenu : f.name[3] = "x" }
    \cup { Frame(BframeUrl, << "c", "-", "y" >>, TRUE, FALSE, FALSE, TRUE, TRUE, FALSE, FALSE) }
PageFrameLists == ListsOver(PageFrameMenu, MaxPageFrames)

\* ------------------------------------------------------ widget locator
\* anchor_frame.name[2:]
FrameId(name) == SubSeq(name, 3, Len(name))

IsAnchor(f) == UrlSearch("anchor", f.url)
IsBframe(f) == UrlSearch("bframe", f.url)

\* Variant without the id test of line 82: every anchor pairs with every bframe.
PairsUpAlways(anchor, bframe) == TRUE

\* frame_id in bframe_frame.name
PairsUp(anchor, bframe) == IsSubstring(FrameId(anchor.name), bframe.name)

\* The loops of _get_recaptcha_frame_pairs run over the anchors in frame-list
\* order and, for each, over the bframes in frame-list order: pair <<i, j>>
\* (frame indexes) is appended before <<k, l>> when PairBefore holds.
PairBefore(p, q) == p[1] < q[1] \/ (p[1] = q[1] /\ p[2] < q[2])

PairSet(frames) ==
    { p \in (1 .. Len(frames)) \X (1 .. Len(frames)) :
        /\ IsAnchor(frames[p[1]])
        /\ IsBframe(frames[p[2]])
        /\ PairsUp(frames[p[1]], frames[p[2]]) }

RECURSIVE InOrder(_)
InOrder(S) ==
    IF S = {} THEN << >>
    ELSE LET first == CHOOSE p \in S : \A q \in S \ { p } : PairBefore(p, q)
         IN  << first >> \o InOrder(S \ { first })

get_recaptcha_frame_pairs(frames) == InOrder(PairSet(frames))

\* Locator queries: an element of a detached frame is not visible.
FramesAreDetached(a, b) == ~a.att \/ ~b.att
FramesAreAttached(a, b) == ~FramesAreDetached(a, b)
CheckboxIsVisible(a) == a.att /\ a.cbVis
CheckboxIsChecked(a) == a.att /\ a.cbChk
AudioButtonIsVisible(b) == b.att /\ b.audVis
AudioButtonIsEnabled(b) == b.att /\ b.audEn
ImageButtonIsVisible(b) == b.att /\ b.imgVis
ImageButtonIsEnabled(b) == b.att /\ b.imgEn

\* The condition of from_frames' loop, with Python's precedence: `and` binds
\* tighter than `or`, so frames_are_attached() guards the checkbox case only.
BoxIsFree(a, b) ==
    \/ /\ FramesAreAttached(a, b)
       /\ CheckboxIsVisible(a)
       /\ ~CheckboxIsChecked(a)
    \/ /\ AudioButtonIsVisible(b)
       /\ AudioButtonIsEnabled(b)
    \/ /\ ImageButtonIsVisible(b)
       /\ ImageButtonIsEnabled(b)

\* from_frames: the box (a pair of frame indexes) or RecaptchaNotFoundError.
from_frames(frames) ==
    LET pairs == get_recaptcha_frame_pairs(frames)
        free == { k \in 1 .. Len(pairs) :
                    BoxIsFree(frames[pairs[k][1]], frames[pairs[k][2]]) }
    IN  IF pairs = << >>
        THEN [ status |-> "RecaptchaNotFoundError", box |-> None ]
        ELSE IF free = {}
        THEN [ status |-> "RecaptchaNotFoundError", box |-> None ]
        ELSE [ status |-> "ok",
               box |-> Some(pairs[CHOOSE k \in free : \A m \in free : k <= m]) ]

NotCalled == [ status |-> "not_called", box |-> None ]

\* ------------------------------------------------------- network responses
\* A response: its URL and its text.  The callback reads the text of a
\* response only when the URL matches the userverify pattern, so only those
\* responses carry one here.
PayloadUrl == << "recaptcha", "api2", "payload" >>
UserverifyUrl == << "www", "recaptcha", "enterprise", "userverify" >>
ReloadUrl == << "recaptcha", "api2", "reload" >>
ForeignUrl == << "recaptcha", "v3", "userverify" >>
BothUrl == << "recaptcha", "enterprise", "payload", "recaptcha", "api2", "userverify" >>
ResponseUrls == { PayloadUrl, UserverifyUrl, ReloadUrl, ForeignUrl, BothUrl }
BothBodies == { << >>, << "M", "q" >>, << "M", "a", "q" >> }

\* (A response matching both patterns can be stored as the payload; it
\* comes with the texts of BothBodies.)
ResponsesOver(bodies) ==
    { [ url |-> u, body |-> b ] :
        u \in { v \in ResponseUrls : UrlSearch("userverify", v) /\ ~UrlSearch("payload", v) },
        b \in bodies }
    \cup { [ url |-> u, body |-> b ] :
             u \in { v \in ResponseUrls : UrlSearch("userverify", v) /\ UrlSearch("payload", v) },
             b \in bodies \cap BothBodies }
    \cup { [ url |-> u, body |-> << >> ] :
             u \in { v \in ResponseUrls : ~UrlSearch("userverify", v) } }

Responses == ResponsesOver(Bodies)

\* ------------------------------------------------------------------- state
VARIABLES
    token,      \* self._token: None or Some(token string)
    payload,    \* self._payload_response: None or Some(response)
    frames,     \* the frame list handed to from_frames (self._page.frames)
    located,    \* what the latest from_frames call gave: its status, and the box (pair of frame indexes) of a bare call
    pc,         \* position of the control flow
    conf,       \* constructor arguments: attempts (self._attempts), key (an API key is set)
    image_challenge, \* the image_challenge argument of the running call
    budget,     \* the value line 551 gave the local `attempts`
    attempts,   \* the local `attempts` of solve_recaptcha
    page,       \* the state of the located widget as of the solver's latest step
    url,        \* the local `url` of _solve_audio_challenge
    elapsed,    \* time spent in the wait=True retry loop, in ticks
    outcome,    \* "none" while running, "returned", or the error raised
    retval,     \* the value returned
    rounds,     \* modality-solver rounds started in this call
    clicked,    \* the control clicked last in this call, "none" before any click
    inflight,   \* the response the callback has been called with: None or Some(response)
    handled,    \* of the response the callback handled last: its URL, and the token before it
    kind,       \* which solver this is: "v2" (recaptchav2) or "v3" (recaptchav3)
    listening,  \* whether the response listener is registered on the page
    route_callback_added,  \* v3: self._route_callback_added
    routes,     \* v3: how many times self._route_callback is registered on the page
    timeout,    \* v3: the local `timeout` of solve_recaptcha, in ticks
    request,    \* the request the page issued last: None or Some(request)
    routed,     \* what the page did with it: << "unseen" >>, or the calls made on its route
    async_token,    \* AsyncSolver: self._token
    async_payload,  \* AsyncSolver: self._payload_response
    pending,    \* AsyncSolver: the callbacks suspended at `await response.text()`
    async_pc,       \* AsyncSolver: position of the control flow
    async_outcome,  \* AsyncSolver: "none" while running, "returned", or the error raised
    async_retval,   \* AsyncSolver: the value returned
    async_clicked,  \* AsyncSolver: the control clicked last
    overtaken,  \* AsyncSolver: how many of the leading callbacks of `pending` were
                \* suspended before the latest `self._token = None`
    outdated,   \* AsyncSolver: self._token was written by such a callback
    field,      \* the widget's hidden response field: None or Some(token)
    callbacks,  \* how often the page's own verification callback was invoked
    injected,   \* the token handed to inject_token: None or Some(token)
    widget,     \* the widget a state query is made of: its frames' attachment and its elements
    reply,      \* what the latest state query gave: None or Some(answer)
    indexes,    \* _solve_tiles: the `indexes` argument, the tiles the classifier named
    todo,       \* _solve_tiles: what is left of `for index in indexes`
    changing_tiles, \* _solve_tiles: the dict of that name, tile -> the image URL seen last
    visiting,   \* _solve_tiles: what is left of `for tile in changing_tiles.copy()`
    tile_clicked,   \* the tile clicked last: None or Some(tile)
    images,     \* the page's grid: tile -> the URL (a version number) of its image
    classified, \* what the latest classification request gave, "unasked" before any
    frame_pairs,    \* what _get_recaptcha_frame_pairs returned last: pairs of frame positions
    failures,   \* transcriptions that gave None in the current round (counted up to MaxFailures)
    stale       \* the token was stored before the last verify click and not since

session == << token, payload >>
traffic == << inflight, handled >>
locator == << frames, located >>
control == << conf, image_challenge, budget, attempts, page, url, elapsed, outcome, retval, rounds, clicked >>
hooks == << kind, listening, route_callback_added, routes, timeout, request, routed >>
suspended == << async_token, async_payload, pending, async_pc, async_outcome, async_retval, async_clicked,
               overtaken, outdated >>
history == << failures, stale >>
injection == << field, callbacks, injected >>
probe == << widget, reply >>
grid == << indexes, todo, changing_tiles, visiting, tile_clicked, images >>
aside == << injection, probe, grid, classified, frame_pairs >>
vars == << token, payload, frames, located, pc, conf, image_challenge, budget, attempts, page, url,
           elapsed, outcome, retval, rounds, clicked, inflight, handled,
           kind, listening, route_callback_added, routes, timeout, request, routed,
           async_token, async_payload, pending, async_pc, async_outcome, async_retval,
           async_clicked, overtaken, outdated, failures, stale, field, callbacks, injected,
           widget, reply, indexes, todo, changing_tiles, visiting, tile_clicked, images,
           classified, frame_pairs >>

\* The widget as the solver sees it: attachment of its two frames, the
\* rate-limit banner, the checkbox, and whether the image / audio challenge
\* is showing (the two are views of one panel).  An element of a detached
\* frame is not visible.
PageStates ==
    { p \in [ aAtt : BOOLEAN, bAtt : BOOLEAN, rl : BOOLEAN, cbVis : BOOLEAN,
              cbChk : BOOLEAN, imgCh : BOOLEAN, audCh : BOOLEAN ] :
        /\ p.cbVis => p.aAtt
        /\ p.cbChk => p.cbVis
        /\ (p.rl \/ p.imgCh \/ p.audCh) => p.bAtt
        /\ ~(p.imgCh /\ p.audCh) }

FreshPage ==
    [ aAtt |-> TRUE, bAtt |-> TRUE, rl |-> FALSE, cbVis |-> FALSE,
      cbChk |-> FALSE, imgCh |-> FALSE, audCh |-> FALSE ]

\* The argument lists of solve_recaptcha: attempts (None, 0 or a count), wait,
\* image_challenge.
CallArgs ==
    [ attempts : { None } \cup { Some(n) : n \in 0 .. MaxAttempts - 1 },
      wait : BOOLEAN, image_challenge : BOOLEAN ]

\* What a solver that has not been asked to solve holds.
ControlIdle ==
    /\ conf = [ attempts |-> MaxAttempts, key |-> FALSE ]
    /\ image_challenge = FALSE
    /\ budget = 0
    /\ attempts = 0
    /\ page = FreshPage
    /\ url = None
    /\ elapsed = 0
    /\ outcome = "none"
    /\ retval = None
    /\ rounds = 0
    /\ clicked = "none"

\* A synchronous v2 solver with its listener registered and nothing routed.
HooksIdle ==
    /\ kind = "v2"
    /\ listening = TRUE
    /\ route_callback_added = FALSE
    /\ routes = 0
    /\ timeout = 0
    /\ request = None
    /\ routed = << "unseen" >>

\* No audio round yet.
HistoryIdle ==
    /\ failures = 0
    /\ stale = FALSE

\* The tiles of the grid, and the versions of a tile's image (its URL).
Tiles == 0 .. MaxTiles - 1
ImageUrls == 0 .. MaxVersions

\* No grid being solved.
GridIdle ==
    /\ indexes = << >>
    /\ todo = << >>
    /\ changing_tiles = << >>
    /\ visiting = << >>
    /\ tile_clicked = None
    /\ images = [ t \in Tiles |-> 0 ]

\* Every element a state query of a widget reads (recaptcha_box.py): the
\* attachment of the anchor and the bframe frame; in the bframe, the five
\* banner texts, whether one of skip / next / verify is enabled, the audio
\* prompt and the new-challenge button; in the anchor, the checkbox.
WidgetFields ==
    { "aAtt", "bAtt", "rl", "fail", "again", "newImg", "selAll", "imgBtn", "audTxt",
      "newChVis", "newChEn", "cbVis", "cbChk" }

WidgetStates == [ WidgetFields -> BOOLEAN ]

\* No state query made: an attached widget showing nothing.
ProbeIdle ==
    /\ widget = [ f \in WidgetFields |-> f \in { "aAtt", "bAtt" } ]
    /\ reply = None

\* A widget nothing was injected into.
InjectionIdle ==
    /\ field = None
    /\ callbacks = 0
    /\ injected = None

\* Neither an injection nor a state query made.
AsideIdle ==
    InjectionIdle /\ ProbeIdle /\ GridIdle /\ classified = "unasked" /\ frame_pairs = << >>

\* No asynchronous solver at work.
AsyncIdle ==
    /\ async_token = None
    /\ async_payload = None
    /\ pending = << >>
    /\ async_pc = "idle"
    /\ async_outcome = "none"
    /\ async_retval = None
    /\ async_clicked = "none"
    /\ overtaken = 0
    /\ outdated = FALSE

\* ------------------------------------------------- traffic classifier (v2)
\* SyncSolver._response_callback: the token and payload after `response`.
\* Variant without `self._payload_response is None`: the last payload wins.
callback_payload_overwriting(tok, pay, response) ==
    IF UrlSearch("payload", response.url)
    THEN Some(response)
    ELSE pay

callback_payload(tok, pay, response) ==
    IF UrlSearch("payload", response.url) /\ pay = None
    THEN Some(response)
    ELSE pay

\* Variant that stores the match result itself: no match clears the token.
callback_token_clearing(tok, pay, response) ==
    IF UrlSearch("payload", response.url) /\ pay = None
    THEN tok
    ELSE IF UrlSearch("userverify", response.url)
    THEN TokenMatch(response.body)
    ELSE tok

callback_token(tok, pay, response) ==
    IF UrlSearch("payload", response.url) /\ pay = None
    THEN tok
    ELSE IF UrlSearch("userverify", response.url)
    THEN IF TokenMatch(response.body) # None
         THEN TokenMatch(response.body)
         ELSE tok
    ELSE tok

response_callback(response) ==
    /\ token' = callback_token(token, payload, response)
    /\ payload' = callback_payload(token, payload, response)

\* Nothing handled yet.
NoneHandled == [ url |-> << >>, token |-> None ]

\* The page emits a response: the listener is called with it.
Arrive ==
    /\ pc = "listening"
    /\ \E r \in Responses : inflight' = Some(r)
    /\ pc' = "callback"
    /\ UNCHANGED << session, handled, locator, control, hooks, aside, suspended, history >>

\* The callback runs on the response it was called with.
Callback ==
    /\ pc = "callback"
    /\ response_callback(inflight[1])
    /\ handled' = [ url |-> inflight[1].url, token |-> token ]
    /\ inflight' = None
    /\ pc' = "listening"
    /\ UNCHANGED << locator, control, hooks, aside, suspended, history >>

\* The solver resets the token (solve_recaptcha, at its start and at the
\* start of each attempt).
ResetToken ==
    /\ pc = "listening"
    /\ token # None
    /\ token' = None
    /\ UNCHANGED << payload, traffic, hooks, aside, suspended, history, locator, pc, control >>

\* The solver clears the payload (_solve_image_challenge).
ClearPayload ==
    /\ pc = "listening"
    /\ payload # None
    /\ payload' = None
    /\ UNCHANGED << token, traffic, hooks, aside, suspended, history, locator, pc, control >>

InitClassifier ==
    /\ token = None
    /\ payload = None
    /\ inflight = None
    /\ handled = NoneHandled
    /\ frames = << >>
    /\ located = NotCalled
    /\ pc = "listening"
    /\ ControlIdle
    /\ HooksIdle
    /\ AsyncIdle
    /\ HistoryIdle
    /\ AsideIdle

NextClassifier == Arrive \/ Callback \/ ResetToken \/ ClearPayload

SpecClassifier == InitClassifier /\ [][NextClassifier]_vars

\* ---------------------------------------------------------- locator alone
\* RecaptchaBox.from_frames called on a list of frames.
FromFrames ==
    /\ pc = "from_frames"
    /\ located' = from_frames(frames)
    /\ pc' = "located"
    /\ UNCHANGED << session, traffic, hooks, aside, suspended, history, frames, control >>

InitLocate ==
    /\ token = None
    /\ payload = None
    /\ inflight = None
    /\ handled = NoneHandled
    /\ frames \in FrameLists(MaxFrames)
    /\ located = NotCalled
    /\ pc = "from_frames"
    /\ ControlIdle
    /\ HooksIdle
    /\ AsyncIdle
    /\ HistoryIdle
    /\ AsideIdle

NextLocate == FromFrames

SpecLocate == InitLocate /\ [][NextLocate]_vars

\* ------------------------------------------------ widget state queries
\* Variant of rate_limit_is_visible that never sees the banner.
RateLimitNeverVisible(p) == FALSE

\* frames_are_detached / frames_are_attached of the located box.
BoxIsDetached(p) == ~p.aAtt \/ ~p.bAtt
BoxIsAttached(p) == ~BoxIsDetached(p)

\* The queries decorated with _check_if_attached answer False on a detached box.
RateLimitIsVisible(p) == IF BoxIsDetached(p) THEN FALSE ELSE p.rl
ImageChallengeIsVisible(p) == IF BoxIsDetached(p) THEN FALSE ELSE p.imgCh
AudioChallengeIsVisible(p) == IF BoxIsDetached(p) THEN FALSE ELSE p.audCh
AnyChallengeIsVisible(p) ==
    IF BoxIsDetached(p) THEN FALSE
    ELSE ImageChallengeIsVisible(p) \/ AudioChallengeIsVisible(p)
ChallengeIsSolved(p) == IF BoxIsDetached(p) THEN FALSE ELSE p.cbVis /\ p.cbChk

\* The solver's step sees the widget in state p: frames that were detached
\* stay detached, everything else may have changed since the previous step.
Observes(p) ==
    /\ p \in PageStates
    /\ p.aAtt => page.aAtt
    /\ p.bAtt => page.bAtt

\* ------------------------------------------------------- the orchestrator
\* The responses the page delivers while a solver is at work: the same URLs,
\* with these verification texts (no marker, an empty token, a token).
SolveBodies == { << >>, << "M", "q" >>, << "M", "a", "q" >> }
SolverResponses == { r \in ResponsesOver(SolveBodies) : r.url # BothUrl }

\* self._page.request.get(image_url): the image of the challenge on display.
FetchedImage == [ url |-> << "image" >>, body |-> << >> ]

AudioUrls == { "audio1", "audio2" }

\* Variant that takes an argument of zero as given.
EffectiveAttemptsAsGiven(given, default) ==
    IF given = None THEN default ELSE given[1]

\* attempts = attempts or self._attempts
EffectiveAttempts(given, default) ==
    IF given = None THEN default
    ELSE IF given[1] = 0 THEN default
    ELSE given[1]

\* Variant of the token test by truthiness (`if self._token`).
TokenIsTruthy(tok) == tok # None /\ tok[1] # << >>

\* `self._token is not None` / the exit test of `while self._token is None`
TokenIsSet(tok) == tok # None

\* frames_are_detached() or not any_challenge_is_visible() or challenge_is_solved()
RoundIsOver(p) ==
    \/ BoxIsDetached(p)
    \/ ~AnyChallengeIsVisible(p)
    \/ ChallengeIsSolved(p)

Raise(error) ==
    /\ outcome' = error
    /\ pc' = "done"

Return(value) ==
    /\ outcome' = "returned"
    /\ retval' = value
    /\ pc' = "done"

FirstRoundPc == IF image_challenge THEN "image_classify" ELSE "audio_get_url"

\* The widget state a successful from_frames leaves the solver with.
BoxPages(a, b) ==
    { p \in PageStates :
        /\ p.aAtt = a.att
        /\ p.bAtt = b.att
        /\ p.cbVis = (a.att /\ a.cbVis)
        /\ p.cbChk = (a.att /\ a.cbVis /\ a.cbChk) }

\* How a location attempt ended: "ok", or the error it raised.
Attempted(status) == [ status |-> status, box |-> None ]

\* from_frames(self._page.frames) and what follows it in solve_recaptcha.
\* A query from_frames makes of a frame pair (is_visible, is_checked,
\* is_enabled) may fail with Playwright's own error, the page being closed.
Locate(onNotFound, onError) ==
    LET found == from_frames(frames)
    IN  \E queryFails \in BOOLEAN :
           /\ queryFails => PairSet(frames) # {}
           /\ IF queryFails
              THEN /\ located' = Attempted("PlaywrightError")
                   /\ onError
                   /\ UNCHANGED << frames, page >>
              ELSE IF found.status = "ok"
              THEN /\ located' = Attempted("ok")
                   /\ page' \in BoxPages(frames[found.box[1][1]], frames[found.box[1][2]])
                   /\ frames' = << >>   \* the page's frame list is not read again
                   /\ pc' = "check_rate_limit"
                   /\ UNCHANGED << outcome >>
              ELSE /\ located' = Attempted(found.status)
                   /\ onNotFound
                   /\ UNCHANGED << frames, page >>

\* Variant without the test of the API key.
KeyIsNeverMissing(isImage, keyIsSet) == FALSE

\* if image_challenge and self._capsolver_api_key is None
KeyIsMissing(isImage, keyIsSet) == isImage /\ ~keyIsSet

\* solve_recaptcha(attempts, wait, image_challenge): lines 545-566.
solve_recaptcha(a) ==
    /\ pc = "idle"
    /\ image_challenge' = a.image_challenge
    /\ IF KeyIsMissing(a.image_challenge, conf.key)
       THEN /\ Raise("CapSolverError")
            /\ UNCHANGED << token, budget, attempts, locator, page >>
       ELSE /\ token' = None
            /\ attempts' = EffectiveAttempts(a.attempts, conf.attempts)
            /\ budget' = attempts'
            /\ IF a.wait
               THEN /\ pc' = "retry_locate"
                    /\ UNCHANGED << locator, page, outcome >>
               ELSE Locate(Raise("RecaptchaNotFoundError"), Raise("PlaywrightError"))
    /\ UNCHANGED << payload, traffic, hooks, aside, suspended, history, conf, url, elapsed, retval, rounds, clicked >>

SolveCall == \E a \in CallArgs : solve_recaptcha(a)

\* Variant of the retry test that retries on every error.
RetriesOnAny(error) == TRUE

\* retry=retry_if_exception_type(RecaptchaNotFoundError)
RetriesOn(error) == error = "RecaptchaNotFoundError"

\* stop=stop_after_delay(wait_timeout)
DelayIsOver(spent) == spent >= MaxWaitTicks

\* What the retry loop does with an error of the attempt: sleep and try
\* again, or re-raise it (reraise=True).
Retry(error) ==
    IF RetriesOn(error) /\ ~DelayIsOver(elapsed)
    THEN UNCHANGED << pc, outcome >>
    ELSE Raise(error)

\* The wait=True retry loop: retry on RecaptchaNotFoundError until wait_timeout
\* has passed, sleeping between tries.  The loop's clock is dropped when the
\* widget is found.
RetryLocate ==
    /\ pc = "retry_locate"
    /\ Locate(Retry("RecaptchaNotFoundError"), Retry("PlaywrightError"))
    /\ elapsed' = IF pc' = "check_rate_limit" THEN 0 ELSE elapsed
    /\ UNCHANGED << session, traffic, hooks, aside, suspended, history, conf, image_challenge, budget, attempts, url, retval, rounds, clicked >>

\* Time passes while the retry loop runs.
Tick ==
    /\ pc = "retry_locate"
    /\ elapsed < MaxWaitTicks
    /\ elapsed' = elapsed + 1
    /\ UNCHANGED << session, locator, pc, traffic, hooks, aside, suspended, history, conf, image_challenge, budget, attempts, page, url,
                    outcome, retval, rounds, clicked >>

\* The page's frames change while the retry loop runs: a frame is added, or
\* a frame already there changes state.
FramesChange ==
    /\ pc = "retry_locate"
    /\ \E f \in PageFrameMenu :
          \/ /\ Len(frames) < MaxPageFrames
             /\ \A k \in 1 .. Len(frames) : frames[k].name # f.name
             /\ frames' = Append(frames, f)
          \/ \E k \in 1 .. Len(frames) :
                /\ frames[k].name = f.name
                /\ frames[k] # f
                /\ frames' = [ frames EXCEPT ![k] = f ]
    /\ UNCHANGED << session, traffic, hooks, aside, suspended, history, located, pc, control >>

\* Lines 568-572 and 284: the rate-limit check, then the checkbox click.
CheckRateLimit ==
    /\ pc = "check_rate_limit"
    /\ \E p \in PageStates :
          /\ Observes(p)
          /\ page' = p
          /\ IF RateLimitIsVisible(p)
             THEN Raise("RecaptchaRateLimitError") /\ UNCHANGED clicked
             ELSE IF p.cbVis
             THEN /\ clicked' = "checkbox"
                  /\ pc' = "checkbox_wait"
                  /\ UNCHANGED outcome
             ELSE /\ pc' = "challenge_wait"
                  /\ UNCHANGED << outcome, clicked >>
    /\ UNCHANGED << session, locator, traffic, hooks, aside, suspended, history, conf, image_challenge, budget, attempts, url, elapsed,
                    retval, rounds >>

\* The loop of _click_checkbox (lines 286-293); when it ends without a
\* visible challenge, lines 574-581 follow without another look at the page.
CheckboxWait ==
    /\ pc = "checkbox_wait"
    /\ \E p \in PageStates :
          /\ Observes(p)
          /\ page' = p
          /\ IF BoxIsAttached(p) /\ ~TokenIsSet(token)
             THEN IF RateLimitIsVisible(p)
                  THEN Raise("RecaptchaRateLimitError") /\ UNCHANGED << retval >>
                  ELSE IF AnyChallengeIsVisible(p)
                  THEN pc' = "after_checkbox" /\ UNCHANGED << outcome, retval >>
                  ELSE UNCHANGED << pc, outcome, retval >>
             ELSE IF TokenIsSet(token)
                  THEN Return(token)
                  ELSE pc' = "token_wait" /\ UNCHANGED << outcome, retval >>
    /\ UNCHANGED << session, locator, traffic, hooks, aside, suspended, history, conf, image_challenge, budget, attempts, url, elapsed, rounds, clicked >>

\* Lines 574-585 after _click_checkbox returned on a visible challenge.
AfterCheckbox ==
    /\ pc = "after_checkbox"
    /\ \E p \in PageStates :
          /\ Observes(p)
          /\ page' = p
          /\ IF TokenIsSet(token)
             THEN Return(token)
             ELSE /\ pc' = IF RoundIsOver(p) THEN "token_wait" ELSE "challenge_wait"
                  /\ UNCHANGED << outcome, retval >>
    /\ UNCHANGED << session, locator, traffic, hooks, aside, suspended, history, conf, image_challenge, budget, attempts, url, elapsed,
                    rounds, clicked >>

\* while self._token is None: wait; return self._token  (lines 582-585, 613-616)
TokenWait ==
    /\ pc = "token_wait"
    /\ \E p \in PageStates :
          /\ Observes(p)
          /\ page' = p
    /\ IF TokenIsSet(token)
       THEN Return(token)
       ELSE UNCHANGED << pc, outcome, retval >>
    /\ UNCHANGED << session, locator, traffic, hooks, aside, suspended, history, conf, image_challenge, budget, attempts, url, elapsed, rounds, clicked >>

\* while not any_challenge_is_visible(): wait  (lines 587-588)
ChallengeWait ==
    /\ pc = "challenge_wait"
    /\ \E p \in PageStates :
          /\ Observes(p)
          /\ page' = p
          /\ IF AnyChallengeIsVisible(p)
             THEN pc' = "switch"
             ELSE UNCHANGED pc
    /\ UNCHANGED << session, locator, traffic, hooks, aside, suspended, history, conf, image_challenge, budget, attempts, url, elapsed,
                    outcome, retval, rounds, clicked >>

\* Variant of the loop test with `attempts >= 0`.
StartRoundInclusive(left) ==
    IF left >= 0
    THEN /\ token' = None
         /\ rounds' = rounds + 1
         /\ failures' = 0
         /\ stale' = FALSE
         /\ pc' = FirstRoundPc
         /\ UNCHANGED outcome
    ELSE /\ Raise("RecaptchaSolveError")
         /\ UNCHANGED << token, rounds, history >>

\* The start of a round: `while attempts > 0`, then self._token = None.
StartRound(left) ==
    IF left > 0
    THEN /\ token' = None
         /\ rounds' = rounds + 1
         /\ failures' = 0
         /\ stale' = FALSE
         /\ pc' = FirstRoundPc
         /\ UNCHANGED outcome
    ELSE /\ Raise("RecaptchaSolveError")
         /\ UNCHANGED << token, rounds, history >>

\* Variant that fetches the image whatever the modality.
FirstImageAlways(isImage, pay) == Some(FetchedImage)

\* if image_challenge: self._payload_response = self._page.request.get(image_url)
FirstImage(isImage, pay) == IF isImage THEN Some(FetchedImage) ELSE pay

\* Lines 590-606: switch to the requested modality, fetch the first image,
\* enter the attempt loop.
Switch ==
    /\ pc = "switch"
    /\ \E p \in PageStates, buttonIsVisible \in BOOLEAN :
          /\ Observes(p)
          /\ buttonIsVisible => p.bAtt
          /\ page' = p
          /\ clicked' = IF buttonIsVisible
                        THEN IF image_challenge THEN "image_button" ELSE "audio_button"
                        ELSE clicked
    /\ payload' = FirstImage(image_challenge, payload)
    /\ StartRound(attempts)
    /\ UNCHANGED << locator, traffic, hooks, aside, suspended, conf, image_challenge, budget, attempts, url, elapsed, retval >>

\* Lines 608-620: the test after a round, the decrement, the next round.
RoundEnd ==
    /\ pc = "round_end"
    /\ \E p \in PageStates :
          /\ Observes(p)
          /\ page' = p
          /\ IF RoundIsOver(p)
             THEN /\ pc' = "token_wait"
                  /\ UNCHANGED << token, attempts, outcome, rounds, history >>
             ELSE /\ attempts' = attempts - 1
                  /\ StartRound(attempts - 1)
    /\ UNCHANGED << payload, locator, traffic, hooks, aside, suspended, conf, image_challenge, budget, url, elapsed, retval, clicked >>

\* Whether the callback stores a token when called with response r.
StoresToken(r) == callback_token(None, payload, r) # None

\* ------------------------------------------------- audio modality solver
\* with expect_response(<endpoint>): <button>.click() -- the click returns
\* once a response of that endpoint has arrived; the listener sees it too.
ExpectedResponses(endpoint) ==
    { r \in SolverResponses \cup { [ url |-> ReloadUrl, body |-> << >> ] } :
        UrlSearch(endpoint, r.url) }

\* _get_audio_url (lines 314-321), called at the top of the round.
AudioGetUrl ==
    /\ pc = "audio_get_url"
    /\ \E p \in PageStates, href \in AudioUrls :
          /\ Observes(p)
          /\ page' = p
          /\ IF RateLimitIsVisible(p)
             THEN Raise("RecaptchaRateLimitError") /\ UNCHANGED << url >>
             ELSE IF AudioChallengeIsVisible(p)
             THEN /\ url' = Some(href)
                  /\ pc' = "audio_transcribe"
                  /\ UNCHANGED << outcome >>
             ELSE UNCHANGED << pc, url, outcome >>
    /\ UNCHANGED << session, locator, traffic, hooks, aside, suspended, history, conf, image_challenge, budget, attempts, elapsed, retval, rounds, clicked >>

\* Variant of the test of line 477 that takes any result for a transcript.
TranscriptIsAnything(text) == TRUE

\* if text is not None: break
TranscriptIsGiven(text) == text # None

\* _transcribe_audio and lines 477-483: a transcript, or None and a click on
\* the new-challenge button.
AudioTranscribe ==
    /\ pc = "audio_transcribe"
    /\ \E text \in { None, Some("words") } :
          /\ failures' = IF text = None /\ failures < MaxFailures
                          THEN failures + 1
                          ELSE failures
          /\ IF TranscriptIsGiven(text)
             THEN /\ pc' = "audio_submit"
                  /\ UNCHANGED << session, clicked >>
             ELSE /\ clicked' = "new_challenge"
                  /\ \E r \in ExpectedResponses("reload") : response_callback(r)
                  /\ pc' = "audio_new_url"
    /\ UNCHANGED << locator, traffic, hooks, aside, suspended, stale, conf, image_challenge, budget, attempts, page, url, elapsed, outcome,
                    retval, rounds >>

\* while url == self._get_audio_url(recaptcha_box): wait  (lines 485-486)
AudioNewUrl ==
    /\ pc = "audio_new_url"
    /\ \E p \in PageStates, href \in AudioUrls :
          /\ Observes(p)
          /\ page' = p
          /\ IF RateLimitIsVisible(p)
             THEN Raise("RecaptchaRateLimitError")
             ELSE IF AudioChallengeIsVisible(p) /\ Some(href) # url
             THEN pc' = "audio_get_url" /\ UNCHANGED << outcome >>
             ELSE UNCHANGED << pc, outcome >>
    /\ UNCHANGED << session, locator, traffic, hooks, aside, suspended, history, conf, image_challenge, budget, attempts, url, elapsed, retval,
                    rounds, clicked >>

\* _submit_audio_text, lines 339-344: fill the text, click verify and wait
\* for the userverify response.
AudioSubmit ==
    /\ pc = "audio_submit"
    /\ clicked' = "verify"
    /\ \E r \in ExpectedResponses("userverify") :
          /\ response_callback(r)
          /\ stale' = (token # None /\ ~StoresToken(r))
    /\ pc' = "audio_submit_wait"
    /\ UNCHANGED << locator, traffic, hooks, aside, suspended, failures, conf, image_challenge, budget, attempts, page, url, elapsed, outcome,
                    retval, rounds >>

\* _submit_audio_text, lines 346-357.
AudioSubmitWait ==
    /\ pc = "audio_submit_wait"
    /\ \E p \in PageStates, solveFailure \in BOOLEAN :
          /\ Observes(p)
          /\ solveFailure => BoxIsAttached(p)
          /\ page' = p
          /\ IF BoxIsDetached(p)
             THEN pc' = "round_end" /\ UNCHANGED << outcome >>
             ELSE IF RateLimitIsVisible(p)
             THEN Raise("RecaptchaRateLimitError")
             ELSE IF ~AudioChallengeIsVisible(p) \/ solveFailure \/ ChallengeIsSolved(p)
             THEN pc' = "round_end" /\ UNCHANGED << outcome >>
             ELSE UNCHANGED << pc, outcome >>
    /\ UNCHANGED << session, locator, traffic, hooks, aside, suspended, history, conf, image_challenge, budget, attempts, url, elapsed, retval,
                    rounds, clicked >>

\* ------------------------------------------------- image modality solver
\* What a classification request can meet: an instruction whose category is
\* not in the category table (no request is sent), a reply of the backend
\* that is not JSON, one with an error id other than 0, and a solution with
\* or without matching cells.
Replies == { "unknown_category", "not_json", "error_id", "no_objects", "objects" }

\* Variant without the try/except around response.json().
get_capsolver_response_uncaught(said) ==
    CASE said = "unknown_category" -> "None"
      [] said = "not_json" -> "JSONDecodeError"
      [] said = "error_id" -> "CapSolverError"
      [] OTHER -> said

\* _get_capsolver_response, lines 139-166: None, an exception, or the JSON
\* of the reply.
get_capsolver_response(said) ==
    CASE said = "unknown_category" -> "None"
      [] said = "not_json" -> "CapSolverError"
      [] said = "error_id" -> "CapSolverError"
      [] OTHER -> said

\* The results of _get_capsolver_response that are exceptions.
IsRaised(result) == result \notin { "None", "no_objects", "objects" }

\* Variant that only looks at the list of objects.
NoMatchInSolution(result) == result = "no_objects"

\* capsolver_response is None or not capsolver_response["solution"]["objects"]
\* (lines 419-422)
NoMatch(result) == result = "None" \/ result = "no_objects"

\* One pass of the loop of _solve_image_challenge (lines 414-450): classify
\* the stored payload; no objects -> new challenge; objects -> click the
\* tiles (_solve_tiles, which classifies the tiles that change), then verify
\* or skip/next.
ImageClassify ==
    /\ pc = "image_classify"
    /\ \E p \in PageStates, first \in Replies :
          /\ Observes(p)
          /\ page' = p
          /\ IF BoxIsDetached(p)
             THEN /\ pc' = "round_end"
                  /\ UNCHANGED << session, outcome, clicked, classified >>
             ELSE IF payload = None
             THEN /\ Raise("AttributeError")
                  /\ UNCHANGED << session, clicked, classified >>
             ELSE IF IsRaised(get_capsolver_response(first))
             THEN /\ Raise(get_capsolver_response(first))
                  /\ classified' = first
                  /\ UNCHANGED << session, clicked >>
             ELSE IF NoMatch(get_capsolver_response(first))
             THEN /\ clicked' = "new_challenge"
                  /\ classified' = first
                  /\ \E r \in ExpectedResponses("reload") :
                        /\ token' = callback_token(token, None, r)
                        /\ payload' = callback_payload(token, None, r)
                  /\ pc' = "image_payload_wait"
                  /\ UNCHANGED outcome
             ELSE \E later \in Replies, buttonIsHidden \in BOOLEAN :
                  IF IsRaised(get_capsolver_response(later))
                  THEN /\ clicked' = "tile"
                       /\ classified' = later
                       /\ Raise(get_capsolver_response(later))
                       /\ UNCHANGED session
                  ELSE IF buttonIsHidden
                  THEN /\ clicked' = "verify"
                       /\ classified' = first
                       /\ payload' = None
                       /\ pc' = "image_submit_wait"
                       /\ UNCHANGED << token, outcome >>
                  ELSE /\ clicked' = "skip_next"
                       /\ classified' = first
                       /\ \E r \in ExpectedResponses("payload") :
                             /\ token' = callback_token(token, None, r)
                             /\ payload' = callback_payload(token, None, r)
                       /\ UNCHANGED << pc, outcome >>
    /\ UNCHANGED << locator, traffic, hooks, injection, frame_pairs, probe, grid, suspended, history, conf,
                    image_challenge, budget, attempts, url, elapsed, retval, rounds >>

\* while self._payload_response is None: ...  (lines 430-436)
ImagePayloadWait ==
    /\ pc = "image_payload_wait"
    /\ IF payload # None
       THEN /\ pc' = "image_classify"
            /\ UNCHANGED << page, outcome >>
       ELSE \E p \in PageStates :
               /\ Observes(p)
               /\ page' = p
               /\ IF RateLimitIsVisible(p)
                  THEN Raise("RecaptchaRateLimitError")
                  ELSE UNCHANGED << pc, outcome >>
    /\ UNCHANGED << session, locator, traffic, hooks, aside, suspended, history, conf, image_challenge, budget, attempts, url, elapsed, retval,
                    rounds, clicked >>

\* _submit_tile_answers, lines 375-396 (the verify click is in ImageClassify).
ImageSubmitWait ==
    /\ pc = "image_submit_wait"
    /\ \E p \in PageStates, tryAgain \in BOOLEAN, newImages \in BOOLEAN :
          /\ Observes(p)
          /\ (tryAgain \/ newImages) => BoxIsAttached(p)
          /\ page' = p
          /\ IF BoxIsDetached(p)
             THEN pc' = "round_end" /\ UNCHANGED << session, outcome, clicked >>
             ELSE IF RateLimitIsVisible(p)
             THEN Raise("RecaptchaRateLimitError") /\ UNCHANGED << session, clicked >>
             ELSE IF ChallengeIsSolved(p) \/ tryAgain
             THEN pc' = "round_end" /\ UNCHANGED << session, outcome, clicked >>
             ELSE IF newImages
             THEN /\ clicked' = "new_challenge"
                  /\ \E r \in ExpectedResponses("payload") : response_callback(r)
                  /\ pc' = "round_end"
                  /\ UNCHANGED << outcome >>
             ELSE UNCHANGED << session, pc, outcome, clicked >>
    /\ UNCHANGED << locator, traffic, hooks, aside, suspended, history, conf, image_challenge, budget, attempts, url, elapsed, retval, rounds >>

\* ------------------------------------------------------------ environment
\* The page delivers a response to the solver's listener.
PageResponse ==
    /\ pc # "done"
    /\ \E r \in SolverResponses :
          /\ response_callback(r)
          /\ stale' = (stale /\ ~StoresToken(r))
    /\ UNCHANGED << traffic, hooks, aside, suspended, failures, locator, pc, control >>

Init ==
    /\ token = None
    /\ payload = None
    /\ inflight = None
    /\ handled = NoneHandled
    /\ frames \in PageFrameLists
    /\ located = NotCalled
    /\ pc = "idle"
    /\ conf \in [ attempts : { MaxAttempts }, key : BOOLEAN ]
    /\ image_challenge = FALSE
    /\ budget = 0
    /\ attempts = 0
    /\ page = FreshPage
    /\ url = None
    /\ elapsed = 0
    /\ outcome = "none"
    /\ retval = None
    /\ rounds = 0
    /\ clicked = "none"
    /\ HooksIdle
    /\ AsyncIdle
    /\ HistoryIdle
    /\ AsideIdle

Next ==
    \/ SolveCall
    \/ RetryLocate
    \/ Tick
    \/ FramesChange
    \/ CheckRateLimit
    \/ CheckboxWait
    \/ AfterCheckbox
    \/ TokenWait
    \/ ChallengeWait
    \/ Switch
    \/ RoundEnd
    \/ AudioGetUrl
    \/ AudioTranscribe
    \/ AudioNewUrl
    \/ AudioSubmit
    \/ AudioSubmitWait
    \/ ImageClassify
    \/ ImagePayloadWait
    \/ ImageSubmitWait
    \/ PageResponse

Spec == Init /\ [][Next]_vars

\* The steps of the solver itself: all of Next but the passing of time and
\* what the page does on its own (frames changing, responses arriving).
SolverNext ==
    \/ SolveCall
    \/ RetryLocate
    \/ CheckRateLimit
    \/ CheckboxWait
    \/ AfterCheckbox
    \/ TokenWait
    \/ ChallengeWait
    \/ Switch
    \/ RoundEnd
    \/ AudioGetUrl
    \/ AudioTranscribe
    \/ AudioNewUrl
    \/ AudioSubmit
    \/ AudioSubmitWait
    \/ ImageClassify
    \/ ImagePayloadWait
    \/ ImageSubmitWait

\* ===================================================== reCAPTCHA v3 solver
\* Characters of a token, a request URL or a header value: "a" takes one
\* byte in UTF-8, "e" (a letter outside ASCII) two.
TextAlphabet == { "a", "e" }
Texts == SeqsUpTo(TextAlphabet, MaxTextLen)
Bytes == { 97, 195, 169 }

Utf8(ch) == IF ch = "a" THEN << 97 >> ELSE << 195, 169 >>

\* str.encode("utf-8")
RECURSIVE Encode(_)
Encode(text) == IF text = << >> THEN << >> ELSE Utf8(Head(text)) \o Encode(Tail(text))

\* route.request: its URL, its post_data_buffer (None or bytes) and the
\* values of its headers.
Requests ==
    [ url : Texts,
      post_data_buffer : { None } \cup { Some(b) : b \in SeqsUpTo(Bytes, MaxTextLen + 1) },
      headers : SeqsUpTo(Texts, MaxTextLen) ]

\* The condition of lines 47-54.
TokenIsInRequest(tok, req) ==
    \/ IsSubstring(tok, req.url)
    \/ /\ req.post_data_buffer # None
       /\ IsSubstring(Encode(tok), req.post_data_buffer[1])
    \/ \E k \in 1 .. Len(req.headers) : IsSubstring(tok, req.headers[k])

\* Variant of _route_callback without the `return` after route.abort().
route_callback_falling_through(tok, req) ==
    IF tok = None THEN << "continue" >>
    ELSE IF TokenIsInRequest(tok[1], req) THEN << "abort", "continue" >>
    ELSE << "continue" >>

\* SyncSolver._route_callback: the calls it makes on the route, in order.
route_callback(tok, req) ==
    IF tok = None THEN << "continue" >>
    ELSE IF TokenIsInRequest(tok[1], req) THEN << "abort" >>
    ELSE << "continue" >>

\* _route_callback called on a request while the solver holds `token`.
RouteCallback ==
    /\ pc = "route"
    /\ routed' = route_callback(token, request[1])
    /\ pc' = "routed"
    /\ UNCHANGED << session, traffic, locator, control, suspended, history, aside,
                    kind, listening, route_callback_added, routes, timeout, request >>

InitRoute ==
    /\ token \in { None } \cup { Some(t) : t \in Texts }
    /\ payload = None
    /\ inflight = None
    /\ handled = NoneHandled
    /\ frames = << >>
    /\ located = NotCalled
    /\ pc = "route"
    /\ ControlIdle
    /\ kind = "v3"
    /\ listening = TRUE
    /\ route_callback_added = TRUE
    /\ routes = 1
    /\ timeout = 0
    /\ request \in { Some(r) : r \in Requests }
    /\ routed = << "unseen" >>
    /\ AsyncIdle
    /\ HistoryIdle
    /\ AsideIdle

NextRoute == RouteCallback

SpecRoute == InitRoute /\ [][NextRoute]_vars

\* ------------------------------------------ a solver from __init__ to close
\* The texts of a reload response: no marker, a marker with no closing
\* quote after it, a marker whose closing quote comes after a newline, an
\* empty token, two tokens ("M" stands for the marker text  "rresp","  here).
ReloadBodies ==
    { << >>, << "M", "a" >>, << "M", "n", "q" >>,
      << "M", "q" >>, << "M", "a", "q" >>, << "M", "e", "q" >> }

\* The responses a page emits during the life of a solver.
PageResponses ==
    { [ url |-> u, body |-> b ] : u \in { ReloadUrl, UserverifyUrl }, b \in ReloadBodies }
    \cup { [ url |-> PayloadUrl, body |-> << >> ] }

\* The requests it issues (no body, no headers).
PageRequests == { r \in Requests : r.post_data_buffer = None /\ r.headers = << >> }

\* recaptchav3 SyncSolver._response_callback: the token after `response`.
response_callback_v3(tok, response) ==
    IF ~UrlSearch("reload", response.url) THEN tok
    ELSE IF TokenMatch(response.body) # None THEN TokenMatch(response.body)
    ELSE tok

\* The positions at which the caller can call the solver.
Callable == { "idle", "done", "closed" }

\* The listener of a solver of either kind is called with response r.
Delivered(r) ==
    /\ IF kind = "v2" THEN response_callback(r)
       ELSE /\ token' = response_callback_v3(token, r)
            /\ UNCHANGED payload
    /\ handled' = [ url |-> r.url, token |-> token' ]
    /\ UNCHANGED inflight

\* The page emits a response: the listener, if registered, is called with it.
Deliver ==
    /\ \E r \in PageResponses :
          IF ~listening THEN UNCHANGED << session, traffic >>
          ELSE Delivered(r)
    /\ UNCHANGED << locator, pc, control, hooks, aside, suspended, history >>

\* The page issues a request: a registered route callback decides on it.
PageRequest ==
    /\ \E r \in PageRequests :
          /\ request' = Some(r)
          /\ routed' = IF routes > 0 THEN route_callback(token, r) ELSE << "unseen" >>
    /\ UNCHANGED << session, traffic, locator, pc, control, suspended, history, aside,
                    kind, listening, route_callback_added, routes, timeout >>

\* The v2 solver clears its token or its payload.
SolverClears ==
    /\ kind = "v2"
    /\ pc \in Callable
    /\ \/ token # None /\ token' = None /\ UNCHANGED payload
       \/ payload # None /\ payload' = None /\ UNCHANGED token
    /\ UNCHANGED << traffic, locator, pc, control, hooks, aside, suspended, history >>

\* self._page.route("**/*", handler) adds a registration of the handler;
\* self._page.unroute("**/*", handler) removes every registration of it.
page_route(n) == n + 1

page_unroute(n) == 0

\* Variant of add_token_request_blocker without the test of the flag.
add_token_request_blocker_unguarded(added, n) ==
    [ added |-> TRUE, routes |-> page_route(n) ]

\* add_token_request_blocker (v3), lines 82-88: the flag and the
\* registrations after the call.
add_token_request_blocker(added, n) ==
    IF added THEN [ added |-> added, routes |-> n ]
    ELSE [ added |-> TRUE, routes |-> page_route(n) ]

\* remove_token_request_blocker (v3), lines 90-96.
remove_token_request_blocker(added, n) ==
    IF ~added THEN [ added |-> added, routes |-> n ]
    ELSE [ added |-> FALSE, routes |-> page_unroute(n) ]

AddTokenRequestBlocker ==
    /\ kind = "v3"
    /\ pc \in Callable
    /\ route_callback_added' = add_token_request_blocker(route_callback_added, routes).added
    /\ routes' = add_token_request_blocker(route_callback_added, routes).routes
    /\ UNCHANGED << session, traffic, locator, pc, control, suspended, history, aside,
                    kind, listening, timeout, request, routed >>

RemoveTokenRequestBlocker ==
    /\ kind = "v3"
    /\ pc \in Callable
    /\ route_callback_added' = remove_token_request_blocker(route_callback_added, routes).added
    /\ routes' = remove_token_request_blocker(route_callback_added, routes).routes
    /\ UNCHANGED << session, traffic, locator, pc, control, suspended, history, aside,
                    kind, listening, timeout, request, routed >>

\* __enter__ (v3), lines 25-29: the blocker is added when the constructor was
\* given block_token_requests and the flag is not set.
Enter ==
    /\ kind = "v3"
    /\ pc \in Callable
    /\ IF conf.block_token_requests /\ ~route_callback_added
       THEN /\ route_callback_added' =
                 add_token_request_blocker(route_callback_added, routes).added
            /\ routes' = add_token_request_blocker(route_callback_added, routes).routes
       ELSE UNCHANGED << route_callback_added, routes >>
    /\ UNCHANGED << session, traffic, locator, pc, control, suspended, history, aside,
                    kind, listening, timeout, request, routed >>

\* self._page.remove_listener(...): KeyError when the listener is not there.
remove_listener(isListening) == IF isListening THEN "ok" ELSE "KeyError"

\* Variant of BaseSolver.close without the try / except.
close_uncaught(isListening) == remove_listener(isListening)

\* BaseSolver.close: try: remove_listener(...) except KeyError: pass
close(isListening) ==
    IF remove_listener(isListening) = "KeyError" THEN "ok"
    ELSE remove_listener(isListening)

\* close() of either solver; the v3 solver also removes its request blocker
\* once the base close has returned.
Close ==
    /\ pc \in Callable
    /\ listening' = FALSE
    /\ IF close(listening) = "ok"
       THEN /\ outcome' = "closed"
            /\ route_callback_added' =
                 IF kind = "v3"
                 THEN remove_token_request_blocker(route_callback_added, routes).added
                 ELSE route_callback_added
            /\ routes' =
                 IF kind = "v3"
                 THEN remove_token_request_blocker(route_callback_added, routes).routes
                 ELSE routes
       ELSE /\ outcome' = close(listening)
            /\ UNCHANGED << route_callback_added, routes >>
    /\ pc' = "closed"
    /\ UNCHANGED << session, traffic, locator, suspended, history, aside, kind, timeout, request, routed,
                    conf, image_challenge, budget, attempts, page, url, elapsed, retval, rounds,
                    clicked >>

\* timeout = timeout or self._timeout
EffectiveTimeout(given, default) ==
    IF given = None THEN default
    ELSE IF given[1] = 0 THEN default
    ELSE given[1]

\* Variant of solve_recaptcha without `self._token = None`.
solve_recaptcha_v3_keeping(given) ==
    /\ kind = "v3"
    /\ pc \in Callable
    /\ token' = token
    /\ timeout' = EffectiveTimeout(given, conf.timeout)
    /\ elapsed' = 0
    /\ outcome' = "none"
    /\ retval' = None
    /\ pc' = "v3_poll"
    /\ UNCHANGED << payload, traffic, locator, suspended, history, aside, kind, listening, route_callback_added, routes,
                    request, routed, conf, image_challenge, budget, attempts, page, url, rounds,
                    clicked >>

\* recaptchav3 solve_recaptcha(timeout), lines 117-119.
solve_recaptcha_v3(given) ==
    /\ kind = "v3"
    /\ pc \in Callable
    /\ token' = None
    /\ timeout' = EffectiveTimeout(given, conf.timeout)
    /\ elapsed' = 0
    /\ outcome' = "none"
    /\ retval' = None
    /\ pc' = "v3_poll"
    /\ UNCHANGED << payload, traffic, locator, suspended, history, aside, kind, listening, route_callback_added, routes,
                    request, routed, conf, image_challenge, budget, attempts, page, url, rounds,
                    clicked >>

SolveCallV3 ==
    \E given \in { None } \cup { Some(n) : n \in 0 .. MaxTimeout - 1 } : solve_recaptcha_v3(given)

\* Variant of the deadline test with `>`.
DeadlinePassedStrictly(spent, limit) == spent > limit

\* time.time() - start_time >= timeout
DeadlinePassed(spent, limit) == spent >= limit

\* One pass of the loop of lines 121-127; time passes during the wait.
PollV3 ==
    /\ pc = "v3_poll"
    /\ IF token # None
       THEN Return(token) /\ UNCHANGED elapsed
       ELSE IF DeadlinePassed(elapsed, timeout)
       THEN Raise("RecaptchaTimeoutError") /\ UNCHANGED << retval, elapsed >>
       ELSE /\ \E d \in 1 .. 2 : elapsed' = elapsed + d
            /\ UNCHANGED << pc, outcome, retval >>
    /\ UNCHANGED << session, traffic, locator, suspended, history, hooks, aside,
                    conf, image_challenge, budget, attempts, page, url, rounds, clicked >>

\* The frames of a page that shows a reCAPTCHA v2 widget: its anchor frame
\* with the checkbox visible and unchecked, and its bframe.
V2WidgetPage ==
    << Frame(AnchorUrl, << "a", "-", "x" >>, TRUE, TRUE, FALSE, FALSE, FALSE, FALSE, FALSE),
       Frame(BframeUrl, << "c", "-", "x" >>, TRUE, FALSE, FALSE, FALSE, FALSE, FALSE, FALSE) >>

\* The pages a solver is constructed on: one without widget frames, one with
\* a v2 widget.
LifecyclePages == { << >>, V2WidgetPage }

InitLifecycle ==
    /\ token = None
    /\ payload = None
    /\ inflight = None
    /\ handled = NoneHandled
    /\ frames \in LifecyclePages
    /\ located = NotCalled
    /\ pc = "idle"
    /\ kind \in { "v2", "v3" }
    /\ \E block \in BOOLEAN :
          conf = IF kind = "v2" THEN [ attempts |-> MaxAttempts, key |-> FALSE ]
                 ELSE [ timeout |-> MaxTimeout, block_token_requests |-> block ]
    /\ image_challenge = FALSE
    /\ budget = 0
    /\ attempts = 0
    /\ page = FreshPage
    /\ url = None
    /\ elapsed = 0
    /\ outcome = "none"
    /\ retval = None
    /\ rounds = 0
    /\ clicked = "none"
    /\ listening = TRUE
    /\ route_callback_added = FALSE
    /\ routes = 0
    /\ timeout = 0
    /\ request = None
    /\ routed = << "unseen" >>
    /\ AsyncIdle
    /\ HistoryIdle
    /\ AsideIdle

NextLifecycle ==
    \/ Deliver
    \/ PageRequest
    \/ SolverClears
    \/ AddTokenRequestBlocker
    \/ RemoveTokenRequestBlocker
    \/ Enter
    \/ Close
    \/ SolveCallV3
    \/ PollV3

SpecLifecycle == InitLifecycle /\ [][NextLifecycle]_vars

\* ------------------------------- the two v2 solvers on the same page events
\* A SyncSolver (token, payload, pc, outcome, retval, clicked) and an
\* AsyncSolver (the async_ variables) run the same call on one page: every
\* response is delivered to both listeners, every poll shows both the same
\* element states.  The call is followed from the checkbox click to the
\* start of the first round.

\* What solve_recaptcha holds of a solver between two polls.
SyncState ==
    [ pc |-> pc, token |-> token, outcome |-> outcome, retval |-> retval,
      clicked |-> clicked ]

AsyncState ==
    [ pc |-> async_pc, token |-> async_token, outcome |-> async_outcome,
      retval |-> async_retval, clicked |-> async_clicked ]

Raised(st, error) == [ st EXCEPT !.pc = "done", !.outcome = error ]

Returned(st) ==
    [ st EXCEPT !.pc = "done", !.outcome = "returned", !.retval = st.token ]

\* One poll of solve_recaptcha between the checkbox click and the first
\* round (sync lines 286-293 and 574-601, async lines 634-664), on the
\* widget state p; buttonIsVisible is audio_challenge_button.is_visible().
solve_step(st, p, buttonIsVisible) ==
    IF st.pc = "checkbox_wait"
    THEN IF BoxIsAttached(p) /\ ~TokenIsSet(st.token)
         THEN IF RateLimitIsVisible(p)
              THEN Raised(st, "RecaptchaRateLimitError")
              ELSE IF AnyChallengeIsVisible(p)
              THEN [ st EXCEPT !.pc = "after_checkbox" ]
              ELSE st
         ELSE IF TokenIsSet(st.token)
              THEN Returned(st)
              ELSE [ st EXCEPT !.pc = "token_wait" ]
    ELSE IF st.pc = "after_checkbox"
    THEN IF TokenIsSet(st.token)
         THEN Returned(st)
         ELSE [ st EXCEPT !.pc = IF RoundIsOver(p) THEN "token_wait"
                                 ELSE "challenge_wait" ]
    ELSE IF st.pc = "token_wait"
    THEN IF TokenIsSet(st.token) THEN Returned(st) ELSE st
    ELSE IF st.pc = "challenge_wait"
    THEN IF AnyChallengeIsVisible(p) THEN [ st EXCEPT !.pc = "switch" ] ELSE st
    ELSE IF st.pc = "switch"
    THEN [ st EXCEPT !.clicked = IF buttonIsVisible THEN "audio_button" ELSE @,
                     !.token = None,
                     !.pc = "round" ]
    ELSE st

\* The call is over, or has entered its first round.
Settled(pcv) == pcv = "done" \/ pcv = "round"

\* solve_recaptcha() on both solvers, the widget located and its checkbox
\* visible: self._token = None, then the checkbox click.
AsyncSolveCall ==
    /\ pc = "idle"
    /\ async_pc = "idle"
    /\ token' = None
    /\ async_token' = None
    /\ clicked' = "checkbox"
    /\ async_clicked' = "checkbox"
    /\ pc' = "checkbox_wait"
    /\ async_pc' = "checkbox_wait"
    /\ overtaken' = Len(pending)
    /\ outdated' = FALSE
    /\ UNCHANGED << payload, async_payload, pending, async_outcome, async_retval, locator, traffic, hooks, aside,
                    history, conf, image_challenge, budget, attempts, page, url, elapsed, outcome,
                    retval, rounds >>

\* AsyncSolver._response_callback up to its await: the payload branch runs
\* through; the userverify branch suspends at `await response.text()`.
async_callback_payload(pay, response) ==
    IF UrlSearch("payload", response.url) /\ pay = None
    THEN Some(response)
    ELSE pay

CallbackSuspends(pay, response) ==
    /\ ~(UrlSearch("payload", response.url) /\ pay = None)
    /\ UrlSearch("userverify", response.url)

\* The page delivers a response: both listeners are called with it.
AsyncDeliver ==
    /\ pc # "idle"
    /\ ~(Settled(pc) /\ Settled(async_pc))
    /\ \E r \in SolverResponses :
          /\ response_callback(r)
          /\ async_payload' = async_callback_payload(async_payload, r)
          /\ IF CallbackSuspends(async_payload, r)
             THEN /\ Len(pending) < MaxPending
                  /\ pending' = Append(pending, r)
             ELSE UNCHANGED pending
    /\ UNCHANGED << async_token, async_pc, async_outcome, async_retval, async_clicked, overtaken,
                    outdated, locator, traffic,
                    hooks, aside, history, pc, control >>

\* `await response.text()` completes for a suspended callback, which goes on:
\* the search for the token, then the write.
AsyncResume ==
    /\ \E k \in 1 .. Len(pending) :
          /\ async_token' = IF TokenMatch(pending[k].body) # None
                            THEN TokenMatch(pending[k].body)
                            ELSE async_token
          /\ pending' = SubSeq(pending, 1, k - 1) \o SubSeq(pending, k + 1, Len(pending))
          /\ overtaken' = IF k <= overtaken THEN overtaken - 1 ELSE overtaken
          /\ outdated' = IF TokenMatch(pending[k].body) # None
                         THEN k <= overtaken
                         ELSE outdated
    /\ UNCHANGED << session, async_payload, async_pc, async_outcome, async_retval, async_clicked,
                    locator, traffic, hooks, aside, history, pc, control >>

\* Both solvers poll the widget and see the same element states.
AsyncPoll ==
    /\ pc # "idle"
    /\ ~(Settled(pc) /\ Settled(async_pc))
    /\ \E p \in PageStates, buttonIsVisible \in BOOLEAN :
          /\ Observes(p)
          /\ buttonIsVisible => p.bAtt
          /\ page' = p
          /\ LET s == solve_step(SyncState, p, buttonIsVisible)
                 a == solve_step(AsyncState, p, buttonIsVisible)
             IN  /\ pc' = s.pc
                 /\ token' = s.token
                 /\ outcome' = s.outcome
                 /\ retval' = s.retval
                 /\ clicked' = s.clicked
                 /\ async_pc' = a.pc
                 /\ async_token' = a.token
                 /\ async_outcome' = a.outcome
                 /\ async_retval' = a.retval
                 /\ async_clicked' = a.clicked
          /\ IF async_pc = "switch"
             THEN overtaken' = Len(pending) /\ outdated' = FALSE
             ELSE UNCHANGED << overtaken, outdated >>
    /\ UNCHANGED << payload, async_payload, pending, locator, traffic, hooks, aside, history, conf,
                    image_challenge, budget, attempts, url, elapsed, rounds >>

InitAsync ==
    /\ token = None
    /\ payload = None
    /\ inflight = None
    /\ handled = NoneHandled
    /\ frames = << >>
    /\ located = NotCalled
    /\ pc = "idle"
    /\ ControlIdle
    /\ HooksIdle
    /\ AsyncIdle
    /\ HistoryIdle
    /\ AsideIdle

NextAsync ==
    \/ AsyncSolveCall
    \/ AsyncDeliver
    \/ AsyncResume
    \/ AsyncPoll

SpecAsync == InitAsync /\ [][NextAsync]_vars

\* --------------------------------- the rounds of the asynchronous solver
\* The AsyncSolver followed past the start of its first round, to the return
\* of solve_recaptcha (async_solver.py lines 667-685).  The clicks of a round
\* and the attempt budget are not followed here.

\* The page delivers a response while a round runs or the token is awaited.
RoundDeliver ==
    /\ async_pc \in { "round", "round_token_wait" }
    /\ \E r \in SolverResponses :
          /\ response_callback(r)
          /\ async_payload' = async_callback_payload(async_payload, r)
          /\ IF CallbackSuspends(async_payload, r)
             THEN /\ Len(pending) < MaxPending
                  /\ pending' = Append(pending, r)
             ELSE UNCHANGED pending
    /\ UNCHANGED << async_token, async_pc, async_outcome, async_retval, async_clicked, overtaken,
                    outdated, locator, traffic, hooks, aside, history, pc, control >>

\* Lines 667-685: the challenge solver has returned.  The round is over when
\* the widget is gone, shows no challenge or is solved; otherwise the next
\* attempt starts with `self._token = None` (line 668).
RoundEnds ==
    /\ async_pc = "round"
    /\ \E p \in PageStates :
          /\ Observes(p)
          /\ page' = p
          /\ IF RoundIsOver(p)
             THEN /\ async_pc' = "round_token_wait"
                  /\ UNCHANGED << async_token, overtaken, outdated >>
             ELSE /\ async_token' = None
                  /\ overtaken' = Len(pending)
                  /\ outdated' = FALSE
                  /\ UNCHANGED async_pc
    /\ UNCHANGED << session, async_payload, pending, async_outcome, async_retval, async_clicked,
                    locator, traffic, hooks, aside, history, pc, conf, image_challenge, budget,
                    attempts, url, elapsed, outcome, retval, rounds, clicked >>

\* Lines 680-683: `while self._token is None: wait`, then `return self._token`.
TokenWaitEnds ==
    /\ async_pc = "round_token_wait"
    /\ TokenIsSet(async_token)
    /\ async_pc' = "done"
    /\ async_outcome' = "returned"
    /\ async_retval' = async_token
    /\ UNCHANGED << session, async_token, async_payload, pending, async_clicked, overtaken,
                    outdated, locator, traffic, hooks, aside, history, pc, control >>

NextRounds ==
    \/ NextAsync
    \/ RoundDeliver
    \/ RoundEnds
    \/ TokenWaitEnds

SpecRounds == InitAsync /\ [][NextRounds]_vars

\* ------------------------------------------------------- token injection
\* inject_token is called by the repository's tests and examples
\* (tests/test_sync_recaptchav2.py, examples/recaptchav2/
\* solve_with_token_injection.py); its body is in no source file at hand, so
\* it is modelled after the specification's words: it "writes the token into
\* the widget's hidden response field and dispatches the page's own callback,
\* bypassing the interactive solve entirely".  What `wait` does on a page
\* without a widget is not said there: the pages here hold a widget.

\* Variant that dispatches the callback a second time.
inject_token_twice(tok) ==
    /\ field' = Some(tok)
    /\ callbacks' = callbacks + 2
    /\ injected' = Some(tok)

inject_token(tok) ==
    /\ field' = Some(tok)
    /\ callbacks' = callbacks + 1
    /\ injected' = Some(tok)

\* The frame lists of a page on which from_frames finds a widget.
WidgetFrameLists == { fs \in PageFrameLists : from_frames(fs).status = "ok" }

\* solver.inject_token(token, wait=True)
InjectToken ==
    /\ pc = "idle"
    /\ \E tok \in Texts : inject_token(tok)
    /\ pc' = "done"
    /\ outcome' = "returned"
    /\ UNCHANGED << session, traffic, locator, hooks, suspended, history, probe, frame_pairs, grid, classified, conf, image_challenge,
                    budget, attempts, page, url, elapsed, retval, rounds, clicked >>

\* A v2 solver just constructed on a page with a widget, whose hidden field
\* is empty or holds an earlier token.
InitInject ==
    /\ token = None
    /\ payload = None
    /\ inflight = None
    /\ handled = NoneHandled
    /\ frames \in WidgetFrameLists
    /\ located = NotCalled
    /\ pc = "idle"
    /\ ControlIdle
    /\ HooksIdle
    /\ AsyncIdle
    /\ HistoryIdle
    /\ field \in { None, Some(<< "e" >>) }
    /\ callbacks = 0
    /\ injected = None
    /\ ProbeIdle
    /\ GridIdle
    /\ classified = "unasked"
    /\ frame_pairs = << >>

\* The call of the tests: `with SyncSolver(page) as solver:
\* solver.inject_token(token, wait=True)`, the page going on meanwhile.
NextInject ==
    \/ InjectToken
    \/ Deliver
    \/ Close

SpecInject == InitInject /\ [][NextInject]_vars

\* ------------------------------------------------- state queries of a widget
\* The boolean state queries of SyncRecaptchaBox, each wrapped by
\* _check_if_attached.
Queries ==
    { "rate_limit_is_visible", "solve_failure_is_visible", "image_challenge_is_visible",
      "audio_challenge_is_visible", "any_challenge_is_visible", "try_again_is_visible",
      "check_new_images_is_visible", "select_all_matching_is_visible",
      "challenge_is_solved" }

\* frames_are_detached(): anchor_frame.is_detached() or bframe_frame.is_detached()
frames_are_detached(w) == ~w.aAtt \/ ~w.bAtt

\* The frame whose elements the body of a query reads: the checkbox is in
\* the anchor frame, everything else in the bframe.
FrameRead(query) == IF query = "challenge_is_solved" THEN "anchor" ELSE "bframe"

FrameIsAttached(w, frame) == IF frame = "anchor" THEN w.aAtt ELSE w.bAtt

\* What the bodies return, read off the elements.
ImageChallengeShows(w) == w.imgBtn
AudioChallengeShows(w) == w.audTxt /\ w.newChVis /\ w.newChEn

ElementsSay(query, w) ==
    CASE query = "rate_limit_is_visible" -> w.rl
      [] query = "solve_failure_is_visible" -> w.fail
      [] query = "image_challenge_is_visible" -> ImageChallengeShows(w)
      [] query = "audio_challenge_is_visible" -> AudioChallengeShows(w)
      [] query = "any_challenge_is_visible" -> ImageChallengeShows(w) \/ AudioChallengeShows(w)
      [] query = "try_again_is_visible" -> w.again
      [] query = "check_new_images_is_visible" -> w.newImg
      [] query = "select_all_matching_is_visible" -> w.selAll
      [] query = "challenge_is_solved" -> w.cbVis /\ w.cbChk

\* The answers the body of a query can give: it reads elements of one frame;
\* what Playwright makes of an element of a detached frame is either "not
\* there" or an error.
Body(query, w) ==
    IF FrameIsAttached(w, FrameRead(query))
    THEN { [ result |-> ElementsSay(query, w), raised |-> FALSE,
             touched |-> { FrameRead(query) } ] }
    ELSE { [ result |-> FALSE, raised |-> r, touched |-> { FrameRead(query) } ] :
             r \in BOOLEAN }

\* Variant without the decorator: the body runs whatever the frames' state.
check_if_attached_dropped(query, w) == Body(query, w)

\* _check_if_attached: if self.frames_are_detached(): return False
check_if_attached(query, w) ==
    IF frames_are_detached(w)
    THEN { [ result |-> FALSE, raised |-> FALSE, touched |-> {} ] }
    ELSE Body(query, w)

\* A state query is made of the widget.
StateQuery ==
    /\ \E query \in Queries : \E a \in check_if_attached(query, widget) :
          reply' = Some([ query |-> query, result |-> a.result, raised |-> a.raised,
                          touched |-> a.touched ])
    /\ UNCHANGED << session, traffic, locator, pc, control, hooks, suspended, history, injection, frame_pairs,
                    grid, classified, widget >>

\* A frame of the widget is detached from the page; its document is gone,
\* the other frame's elements stay as they are.
FrameDetaches ==
    /\ \E f \in { "aAtt", "bAtt" } :
          /\ widget[f]
          /\ widget' = [ widget EXCEPT ![f] = FALSE ]
    /\ UNCHANGED << session, traffic, locator, pc, control, hooks, suspended, history, injection, frame_pairs,
                    grid, classified, reply >>

\* A located widget in any state of its elements.
InitQueries ==
    /\ token = None
    /\ payload = None
    /\ inflight = None
    /\ handled = NoneHandled
    /\ frames = << >>
    /\ located = NotCalled
    /\ pc = "idle"
    /\ ControlIdle
    /\ HooksIdle
    /\ AsyncIdle
    /\ HistoryIdle
    /\ InjectionIdle
    /\ GridIdle
    /\ classified = "unasked"
    /\ frame_pairs = << >>
    /\ widget \in WidgetStates
    /\ reply = None

NextQueries ==
    \/ StateQuery
    \/ FrameDetaches

SpecQueries == InitQueries /\ [][NextQueries]_vars

\* ------------------------------------------------------ tiles of the grid
\* _solve_tiles(recaptcha_box, indexes), sync_solver.py lines 168-228.

\* The lists the classifier names: tiles of the grid, each once, at least
\* one (line 419-421 sends an empty list to a new challenge instead).
IndexLists ==
    { ix \in SeqsUpTo(Tiles, MaxTiles) :
        /\ ix # << >>
        /\ \A i, j \in 1 .. Len(ix) : i # j => ix[i] # ix[j] }

\* Variant that counts the tiles from one.
TileAtOneBased(index) == (index + 1) % MaxTiles

\* recaptcha_box.tile_selector.nth(index)
TileAt(index) == index

\* The ceiling of the polling loop, in seconds.
CeilingSeconds == 60

\* timedelta.seconds of a non-negative difference: its seconds within the
\* day, the whole days being kept in timedelta.days.
Seconds(delta) == delta % 86400

\* Variant that tests nothing but the dict.
LoopGoesOnWhileTilesChange(changing, spent) == changing # << >>

\* while changing_tiles and (datetime.now() - start_time).seconds < 60
LoopGoesOn(changing, spent) ==
    changing # << >> /\ Seconds(spent) < CeilingSeconds

\* What a classification request for one tile can give: CapSolverError, None
\* (the task object is not in the table), or a solution with hasObject.
TileAnswers == { "error", "none", "no_object", "has_object" }

\* The tiles of a dict in the order they were put in: the order of indexes.
RECURSIVE InsertionOrder(_, _)
InsertionOrder(ix, changing) ==
    IF ix = << >> THEN << >>
    ELSE IF TileAt(Head(ix)) \in DOMAIN changing
    THEN << TileAt(Head(ix)) >> \o InsertionOrder(Tail(ix), changing)
    ELSE InsertionOrder(Tail(ix), changing)

\* d[k] = v on a dict
Put(d, k, v) == [ t \in DOMAIN d \cup { k } |-> IF t = k THEN v ELSE d[t] ]

\* Variant that leaves the key in the dict.
PopKept(d, k) == d

\* d.pop(k)
Pop(d, k) == [ t \in DOMAIN d \ { k } |-> d[t] ]

\* What datetime.now() - start_time can be at a test of the loop: half a
\* minute, the ceiling, and a day and half a minute (the machine was
\* suspended, or the wall clock was set).
Readings == { 30, CeilingSeconds, MaxClock }

\* _solve_tiles is called with the classifier's indexes.
SolveTilesCall ==
    /\ pc = "idle"
    /\ \E ix \in IndexLists :
          /\ indexes' = ix
          /\ todo' = ix
    /\ changing_tiles' = << >>
    /\ pc' = "tiles_click"
    /\ UNCHANGED << session, traffic, locator, hooks, suspended, history, injection, frame_pairs, probe,
                    classified, visiting, tile_clicked, images, conf, image_challenge, budget,
                    attempts, page, url, elapsed, outcome, retval, rounds, clicked >>

\* One pass of `for index in indexes` (lines 194-202), or its end and
\* start_time = datetime.now() (line 204).
ClickTile ==
    /\ pc = "tiles_click"
    /\ IF todo = << >>
       THEN /\ elapsed' = 0
            /\ pc' = "tiles_poll"
            /\ UNCHANGED << todo, changing_tiles, tile_clicked, clicked >>
       ELSE LET tile == TileAt(Head(todo))
            IN  /\ tile_clicked' = Some(tile)
                /\ clicked' = "tile"
                /\ todo' = Tail(todo)
                /\ \E isDynamic \in BOOLEAN :
                      changing_tiles' = IF isDynamic
                                        THEN Put(changing_tiles, tile, images[tile])
                                        ELSE changing_tiles
                /\ UNCHANGED << pc, elapsed >>
    /\ UNCHANGED << session, traffic, locator, hooks, suspended, history, injection, frame_pairs, probe,
                    classified, indexes, visiting, images, conf, image_challenge, budget,
                    attempts, page, url, outcome, retval, rounds >>

\* The test of the while loop (line 206) and, when it holds, the copy the
\* for loop runs over (line 207).
PollTest ==
    /\ pc = "tiles_poll"
    /\ visiting = << >>
    /\ IF LoopGoesOn(changing_tiles, elapsed)
       THEN /\ visiting' = InsertionOrder(indexes, changing_tiles)
            /\ UNCHANGED << pc, outcome, retval >>
       ELSE /\ Return(None)
            /\ UNCHANGED visiting
    /\ UNCHANGED << session, traffic, locator, hooks, suspended, history, injection, frame_pairs, probe,
                    classified, indexes, todo, changing_tiles, tile_clicked, images, conf,
                    image_challenge, budget, attempts, page, url, elapsed, rounds, clicked >>

\* One pass of `for tile in changing_tiles.copy()` (lines 207-228).
VisitTile ==
    /\ pc = "tiles_poll"
    /\ visiting # << >>
    /\ LET tile == Head(visiting)
       IN  IF changing_tiles[tile] = images[tile]
           THEN /\ visiting' = Tail(visiting)
                /\ UNCHANGED << changing_tiles, tile_clicked, classified, pc, outcome, clicked >>
           ELSE \E given \in TileAnswers :
                   /\ classified' = given
                   /\ IF given = "error"
                      THEN /\ Raise("CapSolverError")
                           /\ changing_tiles' = Put(changing_tiles, tile, images[tile])
                           /\ UNCHANGED << visiting, tile_clicked, clicked >>
                      ELSE IF given = "has_object"
                      THEN /\ changing_tiles' = Put(changing_tiles, tile, images[tile])
                           /\ tile_clicked' = Some(tile)
                           /\ clicked' = "tile"
                           /\ visiting' = Tail(visiting)
                           /\ UNCHANGED << pc, outcome >>
                      ELSE /\ changing_tiles' = Pop(changing_tiles, tile)
                           /\ visiting' = Tail(visiting)
                           /\ UNCHANGED << tile_clicked, pc, outcome, clicked >>
    /\ UNCHANGED << session, traffic, locator, hooks, suspended, history, injection, frame_pairs, probe,
                    indexes, todo, images, conf, image_challenge, budget, attempts, page, url,
                    elapsed, retval, rounds >>

\* The page replaces the image of a tile.
TileImageChanges ==
    /\ pc = "tiles_click" \/ pc = "tiles_poll"
    /\ \E t \in Tiles :
          /\ images[t] < MaxVersions
          /\ images' = [ images EXCEPT ![t] = @ + 1 ]
    /\ UNCHANGED << session, traffic, locator, hooks, suspended, history, injection, frame_pairs, probe,
                    classified, indexes, todo, changing_tiles, visiting, tile_clicked, pc,
                    control >>

\* The clock moves on while the polling loop runs.
ClockAdvances ==
    /\ pc = "tiles_poll"
    /\ \E reading \in Readings :
          /\ reading > elapsed
          /\ elapsed' = reading
    /\ UNCHANGED << session, traffic, locator, hooks, suspended, history, aside, pc, conf,
                    image_challenge, budget, attempts, page, url, outcome, retval, rounds,
                    clicked >>

InitTiles ==
    /\ token = None
    /\ payload = None
    /\ inflight = None
    /\ handled = NoneHandled
    /\ frames = << >>
    /\ located = NotCalled
    /\ pc = "idle"
    /\ ControlIdle
    /\ HooksIdle
    /\ AsyncIdle
    /\ HistoryIdle
    /\ AsideIdle

NextTiles ==
    \/ SolveTilesCall
    \/ ClickTile
    \/ PollTest
    \/ VisitTile
    \/ TileImageChanges
    \/ ClockAdvances

SpecTiles == InitTiles /\ [][NextTiles]_vars

\* ------------------------------------------- calls with an argument of zero
\* A solver of either kind whose every call passes zero:
\* solve_recaptcha(attempts=0) on the v2 solver, solve_recaptcha(timeout=0)
\* on the v3 solver.
ZeroAttemptsArgs == { a \in CallArgs : a.attempts = Some(0) }

ZeroCallV2 ==
    /\ kind = "v2"
    /\ \E a \in ZeroAttemptsArgs : solve_recaptcha(a)

ZeroCallV3 ==
    /\ kind = "v3"
    /\ solve_recaptcha_v3(Some(0))

InitZero == Init \/ (InitLifecycle /\ kind = "v3")

NextZero ==
    \/ ZeroCallV2
    \/ /\ kind = "v2"
       /\ \/ RetryLocate
          \/ Tick
          \/ FramesChange
          \/ CheckRateLimit
          \/ CheckboxWait
          \/ AfterCheckbox
          \/ TokenWait
          \/ ChallengeWait
          \/ Switch
          \/ RoundEnd
          \/ AudioGetUrl
          \/ AudioTranscribe
          \/ AudioNewUrl
          \/ AudioSubmit
          \/ AudioSubmitWait
          \/ ImageClassify
          \/ ImagePayloadWait
          \/ ImageSubmitWait
          \/ PageResponse
    \/ ZeroCallV3
    \/ /\ kind = "v3"
       /\ \/ Deliver
          \/ PageRequest
          \/ AddTokenRequestBlocker
          \/ RemoveTokenRequestBlocker
          \/ Enter
          \/ Close
          \/ PollV3

SpecZero == InitZero /\ [][NextZero]_vars

\* ------------------------------------------------------- pairing of frames
\* RecaptchaBox._get_recaptcha_frame_pairs called on a list of frames.

\* The frames of two widgets, x and y, and an anchor frame whose name is only
\* the two-character prefix; all attached, their controls hidden.
PairingMenu ==
    { Frame(AnchorUrl, n, TRUE, FALSE, FALSE, FALSE, FALSE, FALSE, FALSE) :
        n \in AnchorNames \cup { << "a", "-" >> } }
    \cup { Frame(BframeUrl, n, TRUE, FALSE, FALSE, FALSE, FALSE, FALSE, FALSE) :
             n \in BframeNames }

PairingLists == ListsOver(PairingMenu, MaxFrames)

\* Lines 64-90: the pairs in the order of the two loops, or
\* RecaptchaNotFoundError when there is none.
GetFramePairs ==
    /\ pc = "pairs_call"
    /\ IF get_recaptcha_frame_pairs(frames) = << >>
       THEN /\ Raise("RecaptchaNotFoundError")
            /\ UNCHANGED << frame_pairs, retval >>
       ELSE /\ frame_pairs' = get_recaptcha_frame_pairs(frames)
            /\ Return(None)
    /\ UNCHANGED << session, traffic, locator, hooks, suspended, history, injection, probe,
                    grid, classified, conf, image_challenge, budget, attempts, page, url,
                    elapsed, rounds, clicked >>

InitPairs ==
    /\ token = None
    /\ payload = None
    /\ inflight = None
    /\ handled = NoneHandled
    /\ frames \in PairingLists
    /\ located = NotCalled
    /\ pc = "pairs_call"
    /\ ControlIdle
    /\ HooksIdle
    /\ AsyncIdle
    /\ HistoryIdle
    /\ AsideIdle

NextPairs == GetFramePairs

SpecPairs == InitPairs /\ [][NextPairs]_vars

\* ============================================================== properties
\* The frames of the located box.
BoxAnchor == frames[located.box[1][1]]
BoxBframe == frames[located.box[1][2]]

\* A widget that can be acted on: both of its frames attached, and its
\* checkbox visible and unchecked or one of its challenge buttons visible and
\* enabled.
Actionable(a, b) ==
    /\ a.att
    /\ b.att
    /\ \/ a.cbVis /\ ~a.cbChk
       \/ b.audVis /\ b.audEn
       \/ b.imgVis /\ b.imgEn

\* C4: from_frames never returns a non-actionable widget: a returned box has
\* both frames attached and a visible unchecked checkbox or a visible enabled
\* audio or image challenge button; when every paired instance has a checked
\* checkbox and no active challenge control, RecaptchaNotFoundError is raised.
C4_NeverNonActionable ==
    /\ located.status = "ok" => Actionable(BoxAnchor, BoxBframe)
    /\ ( /\ pc = "located"
         /\ \A p \in PairSet(frames) :
               /\ frames[p[1]].cbChk
               /\ ~(frames[p[2]].audVis /\ frames[p[2]].audEn)
               /\ ~(frames[p[2]].imgVis /\ frames[p[2]].imgEn) )
       => located.status = "RecaptchaNotFoundError"

CallbackStep == pc = "callback" /\ pc' = "listening"

\* C9 as claimed: once the callback has set the token, no later response
\* (irrelevant, duplicate, or a verification response carrying a different
\* token) changes it until the solver resets it.
C9_TokenNeverOverwritten ==
    [][ (CallbackStep /\ token # None) => token' = token ]_vars

\* C9 as amended: once the token is set, a response changes it only if it is a
\* verification response whose text carries a token (the text between the
\* marker and the next quote), and that token replaces the stored one; every
\* other response leaves it unchanged.
C9_OnlyVerificationOverwrites ==
    [][ (CallbackStep /\ token # None /\ token' # token) =>
            LET r == inflight[1]
            IN  /\ r.url \in { UserverifyUrl, BothUrl }
                /\ token' # None
                /\ \A k \in 1 .. Len(token'[1]) : token'[1][k] \notin { "q", "M", "n" }
                /\ \E i \in 1 .. Len(r.body) :
                      /\ r.body[i] = "M"
                      /\ token'[1] = SubSeq(r.body, i + 1, i + Len(token'[1]))
                      /\ i + Len(token'[1]) < Len(r.body)
                      /\ r.body[i + Len(token'[1]) + 1] \in { "q", "M" } ]_vars

\* A verification response has replaced one token by another.
C9_Witness ==
    /\ pc = "listening"
    /\ handled.url = UserverifyUrl
    /\ handled.token = Some(<< "a" >>)
    /\ token = Some(<< "b" >>)

\* C10: the callback stores a payload-endpoint response only when no payload
\* is stored; while one is stored, no response changes it.
C10_PayloadFirstMatchWins ==
    [][ CallbackStep =>
            /\ payload # None => payload' = payload
            /\ payload = None =>
                  payload' = IF inflight[1].url \in { PayloadUrl, BothUrl }
                             THEN inflight ELSE None ]_vars

\* A payload-endpoint response was handled while another one was stored,
\* and the stored one is still there.
C10_Witness ==
    /\ pc = "listening"
    /\ handled.url = PayloadUrl
    /\ payload = Some([ url |-> BothUrl, body |-> << "M", "q" >> ])

\* --------------------------------------------------------- solve_recaptcha
\* The solver has taken a step (a response handled by the listener changes
\* neither the position nor what the solver saw of the widget).
SolverStep == pc' # pc \/ page' # page

\* The rate-limit banner is showing on the attached widget.
BannerShows(p) == p.aAtt /\ p.bAtt /\ p.rl

\* After a round the widget is still attached, a challenge is still visible
\* and the checkbox is not checked.
StillUnsolved(p) ==
    /\ p.aAtt
    /\ p.bAtt
    /\ (p.imgCh \/ p.audCh)
    /\ ~(p.cbVis /\ p.cbChk)

\* C1: with attempt budget N >= 1, when after each of the N rounds the widget
\* is still attached, a challenge is still visible and the checkbox is not
\* checked, the call raises RecaptchaSolveError after exactly N rounds and
\* returns no token: after such a round another round starts while fewer than
\* N have run, and the error is raised once N have run.
C1_BudgetExhaustion ==
    /\ [](outcome = "RecaptchaSolveError" =>
              budget >= 1 /\ rounds = budget /\ retval = None)
    /\ [][ (pc = "round_end" /\ pc' # pc /\ StillUnsolved(page')) =>
              IF rounds < budget
              THEN rounds' = rounds + 1 /\ outcome' = "none"
              ELSE outcome' = "RecaptchaSolveError" /\ rounds' = rounds /\ retval' = None ]_vars

C1_Witness ==
    /\ pc = "done"
    /\ outcome = "RecaptchaSolveError"
    /\ budget = MaxAttempts
    /\ rounds = MaxAttempts
    /\ StillUnsolved(page)

\* C2: every value solve_recaptcha returns is a present, non-empty token.
C2_ReturnedTokenNonEmpty ==
    outcome = "returned" => (retval # None /\ retval[1] # << >>)

\* No anchor frame and bframe frame of the list pair up.
NoPair(fs) ==
    ~ \E i \in 1 .. Len(fs), j \in 1 .. Len(fs) :
          /\ UrlSearch("anchor", fs[i].url)
          /\ UrlSearch("bframe", fs[j].url)
          /\ IsSubstring(SubSeq(fs[i].name, 3, Len(fs[i].name)), fs[j].name)

\* C3 as claimed: on frames with no anchor and bframe that pair up, locating
\* fails with RecaptchaNotFoundError, and solve_recaptcha called with
\* wait=False raises RecaptchaNotFoundError in its first step, with nothing
\* clicked and no wait.
C3_NotFoundAtOnce ==
    /\ [](NoPair(frames) => from_frames(frames).status = "RecaptchaNotFoundError")
    /\ [][ \A a \in CallArgs :
              (solve_recaptcha(a) /\ ~a.wait /\ NoPair(frames)) =>
                  /\ pc' = "done"
                  /\ outcome' = "RecaptchaNotFoundError"
                  /\ clicked' = "none" ]_vars

\* C3 as amended: the same, for a call that does not ask for the image
\* challenge on a solver without a CapSolver API key.
C3_NotFoundAtOnceUnlessConfigError ==
    /\ [](NoPair(frames) => from_frames(frames).status = "RecaptchaNotFoundError")
    /\ [][ \A a \in CallArgs :
              ( /\ solve_recaptcha(a)
                /\ ~a.wait
                /\ ~(a.image_challenge /\ ~conf.key)
                /\ NoPair(frames) ) =>
                  /\ pc' = "done"
                  /\ outcome' = "RecaptchaNotFoundError"
                  /\ clicked' = "none" ]_vars

\* The call failed in its first step (no time spent retrying) on frames that
\* hold an anchor and a bframe of different widgets.
C3_Witness ==
    /\ pc = "done"
    /\ outcome = "RecaptchaNotFoundError"
    /\ elapsed = 0
    /\ clicked = "none"
    /\ Len(frames) = 2
    /\ frames[1].url = AnchorUrl
    /\ frames[2].url = BframeUrl
    /\ NoPair(frames)

\* C6: when the click on the checkbox is followed at once by a verification
\* response carrying a token T, solve_recaptcha returns T with no modality
\* solver run: no round starts and no challenge button is clicked.
C6_TokenAfterCheckboxClick ==
    [][ (pc = "checkbox_wait" /\ pc' # pc /\ token # None) =>
            /\ outcome' = "returned"
            /\ retval' = token
            /\ rounds' = 0
            /\ clicked' = "checkbox" ]_vars

C6_Witness ==
    /\ pc = "done"
    /\ outcome = "returned"
    /\ retval = Some(<< "a" >>)
    /\ rounds = 0
    /\ clicked = "checkbox"
    /\ ~(page.imgCh \/ page.audCh)

\* C7 as claimed: when the rate-limit banner is visible before the checkbox
\* click or at the poll after it, solve_recaptcha raises
\* RecaptchaRateLimitError with no round run and the attempt budget untouched.
C7_RateLimitAtCheckbox ==
    [][ (pc \in { "check_rate_limit", "checkbox_wait" } /\ SolverStep /\ BannerShows(page')) =>
            /\ outcome' = "RecaptchaRateLimitError"
            /\ rounds' = 0
            /\ attempts' = budget ]_vars

\* C7 as amended: the same, unless a token has been captured by the time of
\* the poll after the click (the token is then returned).
C7_RateLimitAtCheckboxUnlessToken ==
    [][ ( /\ \/ pc = "check_rate_limit"
             \/ pc = "checkbox_wait" /\ token = None
          /\ SolverStep
          /\ BannerShows(page') ) =>
            /\ outcome' = "RecaptchaRateLimitError"
            /\ rounds' = 0
            /\ attempts' = budget ]_vars

\* The banner was seen at the poll after the checkbox click.
C7_Witness ==
    /\ pc = "done"
    /\ outcome = "RecaptchaRateLimitError"
    /\ clicked = "checkbox"
    /\ BannerShows(page)
    /\ rounds = 0
    /\ attempts = budget
    /\ budget >= 1

\* The polling waits of solve_recaptcha.
PollingSteps ==
    { "checkbox_wait", "challenge_wait", "image_payload_wait", "audio_get_url",
      "audio_new_url", "audio_submit_wait", "image_submit_wait", "token_wait" }

\* C8: whenever the rate-limit banner is visible on the attached widget at a
\* polling step, the call raises RecaptchaRateLimitError at that step.
C8_RateLimitAtEveryPoll ==
    [][ (pc \in PollingSteps /\ SolverStep /\ BannerShows(page')) =>
            outcome' = "RecaptchaRateLimitError" ]_vars

\* C11: the v3 request blocker aborts a request if and only if a token is set
\* and occurs in the request's URL, its body or one of its header values;
\* every other request, and every request seen while no token is set, is
\* continued; each request gets exactly one decision.
C11_AbortsOnlyTokenRequests ==
    pc = "routed" =>
        LET req == request[1]
            occurs ==
                /\ token # None
                /\ \/ IsSubstring(token[1], req.url)
                   \/ /\ req.post_data_buffer # None
                      /\ IsSubstring(Encode(token[1]), req.post_data_buffer[1])
                   \/ \E k \in 1 .. Len(req.headers) : IsSubstring(token[1], req.headers[k])
        IN  /\ Len(routed) = 1
            /\ routed[1] = "abort" <=> occurs
            /\ routed[1] = "continue" <=> ~occurs
            /\ token = None => routed = << "continue" >>

\* A request whose body carries the two-byte token is aborted.
C11_Witness ==
    /\ pc = "routed"
    /\ token = Some(<< "e" >>)
    /\ request[1].url = << "a" >>
    /\ request[1].post_data_buffer = Some(<< 195, 169 >>)
    /\ request[1].headers = << >>
    /\ routed = << "abort" >>

\* A pass of the v3 polling loop (a response that arrives meanwhile changes
\* neither the position nor the clock).
PollStep == pc = "v3_poll" /\ (pc' # pc \/ elapsed' # elapsed)

\* C12: the v3 solve_recaptcha returns the token as soon as a poll finds one
\* set and raises RecaptchaTimeoutError when the deadline has passed with no
\* token set; it never returns an absent token and never polls on after the
\* deadline.
C12_PassiveWait ==
    /\ [](kind = "v3" /\ outcome = "returned" => retval # None)
    /\ [][ PollStep =>
             IF token # None
             THEN outcome' = "returned" /\ retval' = token /\ pc' = "done"
             ELSE IF elapsed >= timeout
             THEN outcome' = "RecaptchaTimeoutError" /\ retval' = None /\ pc' = "done"
             ELSE outcome' = "none" /\ pc' = "v3_poll" /\ elapsed' > elapsed ]_vars

\* The call timed out at the very tick of its deadline.
C12_Witness ==
    /\ kind = "v3"
    /\ pc = "done"
    /\ outcome = "RecaptchaTimeoutError"
    /\ timeout = 1
    /\ elapsed = timeout
    /\ token = None

\* C19: close() detaches the response listener and, for v3, the request
\* blocker: once detached, no response changes the token or the payload (the
\* solver itself can only clear them) and no request is intercepted; close()
\* raises nothing, on a solver already closed either.
C19_CloseDetaches ==
    /\ [](outcome # "KeyError")
    /\ [][ Close =>
             ~listening' /\ ~route_callback_added' /\ outcome' = "closed" ]_vars
    /\ [][ ~listening => token' \in { token, None } /\ payload' \in { payload, None } ]_vars
    /\ [][ ~route_callback_added => routed' \in { routed, << "unseen" >> } ]_vars

\* A closed v3 solver that held a token and a blocker: the last request went
\* by unseen although it carries the token.
C19_Witness ==
    /\ kind = "v3"
    /\ pc = "closed"
    /\ ~listening
    /\ ~route_callback_added
    /\ token = Some(<< "a" >>)
    /\ request = Some([ url |-> << "a" >>, post_data_buffer |-> None, headers |-> << >> ])
    /\ routed = << "unseen" >>

\* C13: every polling wait of the v2 solve_recaptcha is bounded.  A bounded
\* wait ends by itself: as long as the call has not ended, the solver or its
\* clock can take a step that changes its state, whatever the page does; a
\* state in which only an event of the page can move the call on is a wait
\* that polls forever when that event never comes.
C13_EveryWaitIsBounded ==
    pc # "done" => ENABLED << SolverNext \/ Tick >>_vars

\* The polling loops that wait for something the widget shows.
WidgetLoops == PollingSteps \ { "token_wait" }

\* C14: every polling loop observes widget detachment and exits: in a loop
\* whose last poll saw the widget detached (detachment is final), a next poll
\* can leave the loop.
C14_LoopsExitOnDetachment ==
    (pc \in WidgetLoops /\ BoxIsDetached(page)) =>
        ENABLED << SolverNext /\ pc' # pc >>_vars

\* The parts of C15 that hold as they are claimed: a transcription without a
\* result is followed by a click on the new-challenge button, no other
\* click happens before the next transcription, and only a transcript is
\* submitted (the verify click follows a transcription that gave one).
OneClickThenSubmit ==
    /\ [][ (pc = "audio_transcribe" /\ pc' = "audio_new_url") =>
              clicked' = "new_challenge" /\ (failures < MaxFailures => failures' = failures + 1) ]_vars
    /\ [][ (pc = "audio_new_url" \/ pc = "audio_get_url") => clicked' = clicked ]_vars
    /\ [][ (pc' = "audio_submit" /\ pc # "audio_submit") =>
              pc = "audio_transcribe" /\ failures' = failures ]_vars

\* The call returned from an audio round in which the first transcription
\* gave no result and the second was submitted.
SecondTranscriptReturned ==
    /\ outcome = "returned"
    /\ clicked = "verify"
    /\ failures = 1

\* C15: when the first transcription yields no result and the second a
\* transcript, exactly one new-challenge click happens between the two, the
\* second transcription is run on an audio URL different from the first, only
\* the second transcript is submitted, and the token returned is the one from
\* a verification response received after that submission.
C15_SecondTranscriptWins ==
    /\ OneClickThenSubmit
    /\ [][ (pc = "audio_get_url" /\ pc' = "audio_transcribe" /\ failures = 1) =>
              url' # url ]_vars
    /\ [](SecondTranscriptReturned => ~stale /\ retval = token)

\* C15 as the code has it: the URL of the second transcription is the one
\* read anew once the widget has shown a URL different from the first, and the
\* token returned is the one the callback stored last since the round began
\* (after the verify click the solver never clears it).
C15_SecondTranscriptSubmitted ==
    /\ OneClickThenSubmit
    /\ [][ (pc = "audio_new_url" /\ pc' # pc /\ outcome' = "none") =>
              pc' = "audio_get_url" /\ url' = url ]_vars
    /\ [][ (pc' = "audio_transcribe" /\ pc # pc') =>
              pc = "audio_get_url" /\ url' # None ]_vars
    /\ [][ (clicked = "verify" /\ failures = 1 /\ rounds' = rounds /\ token # None) =>
              token' # None ]_vars
    /\ [](SecondTranscriptReturned => retval = token /\ retval # None)

\* The second transcript was submitted and the token of the verification
\* response that followed was returned.
C15_Witness ==
    /\ SecondTranscriptReturned
    /\ rounds = 1
    /\ ~stale
    /\ retval = Some(<< "a" >>)
    /\ url # None

\* C16: the audio solver's retry on transcription failure is bounded by the
\* attempt budget: every fetch-decode-transcribe cycle that ends without a
\* transcript uses up an attempt (or ends the call), so that with budget N
\* at most N cycles can fail before RecaptchaSolveError is raised.
C16_RetryChargedToBudget ==
    [][ (pc = "audio_transcribe" /\ pc' = "audio_new_url") =>
            attempts' < attempts ]_vars

\* ---------------------------------------------------------------- C17
\* The responses the listener can be called with while a solver is at work.
CallbackResponses == SolverResponses \cup ExpectedResponses("reload")

\* The step stores a present token, a present payload.
WritesToken == token' # token /\ token' # None
WritesPayload == payload' # payload /\ payload' # None

\* The stored value is what the callback takes from a response: the token
\* of a verification response, a payload response itself.
TokenFromResponse ==
    \E r \in CallbackResponses :
        UrlSearch("userverify", r.url) /\ token' = TokenMatch(r.body)

PayloadFromResponse ==
    \E r \in CallbackResponses :
        UrlSearch("payload", r.url) /\ payload' = Some(r)

\* The solver's own write: the first image, fetched before the first round
\* of an image solve.
FirstImageFetch ==
    /\ pc = "switch"
    /\ image_challenge
    /\ payload' = Some(FetchedImage)

\* C17 as stated: every present value stored in the token or the payload
\* field is one the response callback took from a response; the solver's own
\* steps only read the fields and reset them to absent.
C17_OnlyCallbackWrites ==
    /\ [][WritesToken => TokenFromResponse]_vars
    /\ [][WritesPayload => PayloadFromResponse]_vars

\* C17 as the code has it: the token field is written with a present value
\* by the callback only; the payload field is written by the callback and,
\* once per image solve, by solve_recaptcha itself with the image it fetched
\* before the first round.
C17_CallbackOrFirstImage ==
    /\ [][WritesToken => TokenFromResponse]_vars
    /\ [][WritesPayload => PayloadFromResponse \/ FirstImageFetch]_vars

\* An image solve holding the image the solver fetched and a token the
\* callback stored.
C17_Witness ==
    /\ image_challenge
    /\ pc = "image_classify"
    /\ payload = Some(FetchedImage)
    /\ token = Some(<< "a" >>)

\* ---------------------------------------------------------------- C18
\* C18: on the same page events the synchronous and the asynchronous solver
\* have clicked the same controls, and when both calls are over they ended
\* with the same returned token or the same error.
C18_SyncAsyncEquivalent ==
    /\ (Settled(pc) /\ Settled(async_pc)) =>
          /\ async_clicked = clicked
          /\ async_pc = pc
    /\ (pc = "done" /\ async_pc = "done") =>
          /\ async_outcome = outcome
          /\ async_retval = retval

\* ---------------------------------------------------------------- C20
\* C20: with wait=True, a location attempt that succeeds lets the call
\* proceed at once; one that raises RecaptchaNotFoundError is retried while
\* wait_timeout has not elapsed and re-raised once it has; any other error
\* of an attempt ends the call with that error at once, whatever the time.
C20_RetriesOnNotFoundOnly ==
    /\ [](located.status = "PlaywrightError" =>
             pc = "done" /\ outcome = "PlaywrightError")
    /\ [][(RetryLocate /\ located'.status = "ok") =>
             pc' = "check_rate_limit" /\ outcome' = "none"]_vars
    /\ [][(RetryLocate /\ located'.status = "RecaptchaNotFoundError") =>
             IF elapsed < MaxWaitTicks
             THEN pc' = "retry_locate" /\ outcome' = "none"
             ELSE pc' = "done" /\ outcome' = "RecaptchaNotFoundError"]_vars
    /\ [][(RetryLocate /\ pc' = "done") =>
             outcome' = located'.status /\ clicked' = "none"]_vars

\* A call with wait=True (time was spent in the retry loop) ended by another
\* error than RecaptchaNotFoundError, with nothing clicked.
C20_Witness ==
    /\ pc = "done"
    /\ outcome = "PlaywrightError"
    /\ located.status = "PlaywrightError"
    /\ elapsed > 0
    /\ clicked = "none"

\* ---------------------------------------------------------------- C21
\* C21: solve_recaptcha(image_challenge=True) on a solver without an API key
\* raises CapSolverError in its first step: no location attempt was made,
\* nothing was clicked, and the token and the payload are what they were.
C21_ConfigErrorFirst ==
    [][ \A a \in CallArgs :
           (solve_recaptcha(a) /\ a.image_challenge /\ ~conf.key) =>
               /\ pc' = "done"
               /\ outcome' = "CapSolverError"
               /\ located' = NotCalled
               /\ clicked' = "none"
               /\ token' = token
               /\ payload' = payload ]_vars

\* The call failed on the missing key while the solver held a token and a
\* payload its listener had stored before the call.
C21_Witness ==
    /\ pc = "done"
    /\ outcome = "CapSolverError"
    /\ image_challenge
    /\ token # None
    /\ payload # None
    /\ located = NotCalled

\* ---------------------------------------------------------------- C22
\* C22: inject_token on a widget with no prior token leaves the given token
\* in the hidden response field and has invoked the page's verification
\* callback exactly once; it clicks nothing, starts no round and writes
\* neither the session token nor the payload.
C22_InjectsOnce ==
    /\ []((injected # None /\ callbacks > 0) =>
             /\ field = injected
             /\ callbacks = 1
             /\ clicked = "none"
             /\ rounds = 0)
    /\ [][InjectToken =>
             /\ field' # None
             /\ callbacks' = callbacks + 1
             /\ token' = token
             /\ payload' = payload]_vars

\* The token "a" was injected and its callback invoked once; the solver has
\* been closed since.
C22_Witness ==
    /\ injected = Some(<< "a" >>)
    /\ field = Some(<< "a" >>)
    /\ callbacks = 1
    /\ pc = "closed"

\* ---------------------------------------------------------------- C23
\* C23: a v3 solve_recaptcha call on a page whose widget is a v2 widget ends
\* with RecaptchaVersionError: it neither returns a token nor raises
\* RecaptchaTimeoutError.
C23_VersionMismatchRaised ==
    (kind = "v3" /\ pc = "done" /\ from_frames(frames).status = "ok") =>
        outcome = "RecaptchaVersionError"

\* ---------------------------------------------------------------- C24
\* C24: a state query made of a widget whose anchor or bframe frame is
\* detached answers False, raises nothing and reads no element at all; and
\* no state query ever reads an element of a detached frame.
C24_DetachedAnswersFalse ==
    /\ [][(StateQuery /\ frames_are_detached(widget)) =>
             /\ reply'[1].result = FALSE
             /\ ~reply'[1].raised
             /\ reply'[1].touched = {}]_vars
    /\ [][StateQuery =>
             /\ ~reply'[1].raised
             /\ \A f \in reply'[1].touched : FrameIsAttached(widget, f)]_vars

\* The rate-limit banner shows in the attached bframe, the anchor frame is
\* detached, and the query answered False without reading the banner.
C24_Witness ==
    /\ ~widget.aAtt
    /\ widget.bAtt
    /\ widget.rl
    /\ reply = Some([ query |-> "rate_limit_is_visible", result |-> FALSE,
                      raised |-> FALSE, touched |-> {} ])

\* ---------------------------------------------------------------- C25
\* The indexes the classifier returned for the round, as a set.
IndexSet == { indexes[i] : i \in 1 .. Len(indexes) }

\* C25: _solve_tiles never clicks a tile whose index is outside the set of
\* indexes the classifier returned for the round: every click, the re-click
\* of a changing tile included, is on a tile of that set.
C25_ClicksOnlyReturnedIndexes ==
    /\ [](tile_clicked # None => tile_clicked[1] \in IndexSet)
    /\ [][(VisitTile /\ classified' = "has_object" /\ visiting' # visiting) =>
             /\ tile_clicked' # None
             /\ tile_clicked'[1] \in IndexSet]_vars

\* The classifier returned the tiles 2 and 0 of three; tile 0 changed its
\* image, was classified again as showing the object and was clicked again.
C25_Witness ==
    /\ pc = "tiles_poll"
    /\ indexes = << 2, 0 >>
    /\ classified = "has_object"
    /\ tile_clicked = Some(0)
    /\ images[0] = 1
    /\ changing_tiles = (0 :> 1)

\* ---------------------------------------------------------------- C26
\* C26: the polling loop of _solve_tiles stops at the first test made once
\* 60 seconds have elapsed since it started, whatever the images of the
\* changing tiles do, and at the first test made with no changing tile left.
C26_PollingStopsAtCeiling ==
    [][(PollTest /\ (elapsed >= CeilingSeconds \/ changing_tiles = << >>)) =>
          pc' = "done"]_vars

\* ---------------------------------------------------------------- C27
\* The replies of the backend that are errors: not JSON, or an error id
\* other than 0.
IsBackendError(said) == said = "not_json" \/ said = "error_id"

\* C27: an error of the classification backend (a reply that is not JSON, or
\* one with an error id other than 0) during any classification request
\* ends the solve_recaptcha call with CapSolverError, not
\* RecaptchaSolveError, and no click, round or other step of the solver
\* follows it.
C27_BackendErrorAborts ==
    /\ [][(ImageClassify /\ IsBackendError(classified')) =>
             /\ pc' = "done"
             /\ outcome' = "CapSolverError"
             /\ rounds' = rounds
             /\ budget' = budget]_vars
    /\ [][(pc = "done" /\ IsBackendError(classified)) =>
             /\ pc' = "done"
             /\ outcome' = outcome
             /\ clicked' = clicked
             /\ rounds' = rounds]_vars

\* The first classification named tiles, they were clicked, and the
\* classification of a tile that changed got a reply that is not JSON: the
\* call ended with CapSolverError.
C27_Witness ==
    /\ pc = "done"
    /\ image_challenge
    /\ classified = "not_json"
    /\ clicked = "tile"
    /\ outcome = "CapSolverError"

\* ---------------------------------------------------------------- C28
\* A response of the endpoint that carries the token, and of no other: the
\* userverify endpoint for a v2 solver, the reload endpoint for a v3 solver.
IsVerification(r) ==
    IF kind = "v2"
    THEN UrlSearch("userverify", r.url) /\ ~UrlSearch("payload", r.url)
    ELSE UrlSearch("reload", r.url)

\* The responses whose text holds no token.
NoTokenResponses == { r \in PageResponses : TokenMatch(r.body) = None }

\* C28: when the callback is called with a verification response whose text
\* holds no token (no marker, or a marker that the pattern cannot complete),
\* it leaves the token and the payload as they are and raises nothing: the
\* solver stays where it is, a polling solver goes on polling.
C28_NoTokenThisTime ==
    [][\A r \in NoTokenResponses :
          ( /\ listening
            /\ IsVerification(r)
            /\ Delivered(r)
            /\ Deliver )
          => /\ token' = token
             /\ payload' = payload
             /\ pc' = pc
             /\ outcome' = outcome
             /\ retval' = retval]_vars

\* A v3 solver is polling without a token, some time into its wait, and the
\* last response its callback handled, a reload response, left it without
\* one.
C28_Witness ==
    /\ kind = "v3"
    /\ pc = "v3_poll"
    /\ elapsed > 0
    /\ handled = [ url |-> ReloadUrl, token |-> None ]
    /\ token = None

\* ---------------------------------------------------------------- C29
\* C29: whenever _solve_image_challenge asks for a classification (its
\* widget being attached) a captured payload is stored: it never reads the
\* body of an absent payload, neither on the pass that follows a skip/next
\* click nor on the attempt that follows a verify click answered by the
\* try-again banner.
C29_PayloadHeldAtEveryRound ==
    /\ [][(ImageClassify /\ BoxIsAttached(page')) => payload # None]_vars
    /\ [](outcome # "AttributeError")

\* ---------------------------------------------------------------- C30
\* The classification found no matching cell, or the category of the
\* instruction is not in the category table.
IsNoMatch(said) == said = "unknown_category" \/ said = "no_objects"

\* C30: when the classification of a stored payload finds no matching cell
\* or the category is unknown, no tile is clicked: the payload is cleared
\* and new-challenge is clicked, and the solver waits; the wait clicks
\* nothing, ends with RecaptchaRateLimitError only when no payload is stored
\* and the banner shows, and otherwise ends only once a payload captured
\* since the clearing is stored, which is the payload of the next
\* classification.
C30_NoMatchAsksNewChallenge ==
    /\ [][( /\ ImageClassify
            /\ BoxIsAttached(page')
            /\ payload # None
            /\ IsNoMatch(classified') ) =>
             /\ clicked' = "new_challenge"
             /\ payload' = None
             /\ tile_clicked' = tile_clicked
             /\ pc' = "image_payload_wait"
             /\ outcome' = outcome]_vars
    /\ [][ImagePayloadWait =>
             /\ clicked' = clicked
             /\ payload' = payload
             /\ \/ payload # None /\ pc' = "image_classify"
                \/ payload = None /\ pc' = "image_payload_wait"
                \/ /\ payload = None
                   /\ RateLimitIsVisible(page')
                   /\ pc' = "done"
                   /\ outcome' = "RecaptchaRateLimitError"]_vars
    /\ [](pc = "image_payload_wait" => clicked = "new_challenge" /\ IsNoMatch(classified))

\* The category was unknown, new-challenge was clicked, a payload has been
\* captured since and the solver is about to classify it.
C30_Witness ==
    /\ pc = "image_classify"
    /\ classified = "unknown_category"
    /\ clicked = "new_challenge"
    /\ payload = Some([ url |-> PayloadUrl, body |-> << >> ])

\* ---------------------------------------------------------------- C31
\* C31: in the polling loop a tile is classified again only when its image
\* URL differs from the one recorded for it; when the new image shows the
\* object the tile is clicked again and stays in the active set with the
\* new URL recorded; when it does not (or the category is unknown) the tile
\* leaves the active set; a tile outside the active set never comes back
\* into it, and every click of the loop is on a tile of the active set.
C31_ReclassifyOnChange ==
    /\ [][(VisitTile /\ changing_tiles[Head(visiting)] = images[Head(visiting)]) =>
             /\ classified' = classified
             /\ changing_tiles' = changing_tiles
             /\ tile_clicked' = tile_clicked
             /\ pc' = pc]_vars
    /\ [][( /\ VisitTile
            /\ changing_tiles[Head(visiting)] # images[Head(visiting)]
            /\ classified' = "has_object" ) =>
             /\ tile_clicked' = Some(Head(visiting))
             /\ Head(visiting) \in DOMAIN changing_tiles'
             /\ changing_tiles'[Head(visiting)] = images[Head(visiting)]]_vars
    /\ [][( /\ VisitTile
            /\ changing_tiles[Head(visiting)] # images[Head(visiting)]
            /\ (classified' = "none" \/ classified' = "no_object") ) =>
             /\ Head(visiting) \notin DOMAIN changing_tiles'
             /\ tile_clicked' = tile_clicked
             /\ clicked' = clicked]_vars
    /\ [][VisitTile => Head(visiting) \in DOMAIN changing_tiles]_vars
    /\ [][\A t \in Tiles :
             (pc = "tiles_poll" /\ t \notin DOMAIN changing_tiles) =>
                 t \notin DOMAIN changing_tiles']_vars

\* Tile 0, the only one the classifier named, changed its image, was
\* classified as no longer showing the object and left the active set.
C31_Witness ==
    /\ pc = "tiles_poll"
    /\ indexes = << 0 >>
    /\ images[0] = 1
    /\ classified = "no_object"
    /\ tile_clicked = Some(0)
    /\ changing_tiles = << >>

\* ---------------------------------------------------------------- C32
\* After the tiles of a round: skip/next is clicked and another round
\* starts, or verify is clicked and the wait after it starts.
AfterTilesStep ==
    /\ [][( /\ ImageClassify
            /\ BoxIsAttached(page')
            /\ payload # None
            /\ classified' = "objects" ) =>
             \/ clicked' = "skip_next" /\ pc' = "image_classify" /\ payload' # None
             \/ clicked' = "verify" /\ pc' = "image_submit_wait" /\ payload' = None]_vars
    /\ [][(ImageClassify /\ pc' = "image_submit_wait") => clicked' = "verify"]_vars

\* A pass of the wait after verify that goes on polling clicks nothing.
SubmitWaitPolls == pc' = "image_submit_wait" /\ clicked' = clicked

\* The wait after verify ends the grid solver: without a click, or with one
\* click of new-challenge made on an attached widget that shows neither the
\* rate-limit banner nor a checked checkbox.
SubmitWaitReturns ==
    /\ pc' = "round_end"
    /\ \/ clicked' = clicked
       \/ /\ clicked' = "new_challenge"
          /\ BoxIsAttached(page')
          /\ ~page'.rl
          /\ ~(page'.cbVis /\ page'.cbChk)

\* The wait after verify raises RecaptchaRateLimitError on a banner.
SubmitWaitRaises ==
    /\ pc' = "done"
    /\ outcome' = "RecaptchaRateLimitError"
    /\ clicked' = clicked

\* C32 as claimed: after the tiles settle the solver clicks skip/next and
\* starts another round, or clicks verify once and polls; the polling ends
\* only by returning (challenge solved, try-again banner, frames detached,
\* or a new-images / select-all banner, new-challenge being clicked once in
\* that last case only).
C32_VerifyThenReturn ==
    /\ AfterTilesStep
    /\ [][ImageSubmitWait => (SubmitWaitPolls \/ SubmitWaitReturns)]_vars

\* C32 as amended: the same, and the polling after verify also ends by
\* raising RecaptchaRateLimitError, which it does at every pass that finds
\* the rate-limit banner on the attached widget.
C32_VerifyThenReturnOrRateLimit ==
    /\ AfterTilesStep
    /\ [][ImageSubmitWait =>
             (SubmitWaitPolls \/ SubmitWaitReturns \/ SubmitWaitRaises)]_vars
    /\ [][(ImageSubmitWait /\ BoxIsAttached(page') /\ page'.rl) => SubmitWaitRaises]_vars
    /\ [][(ImageSubmitWait /\ SubmitWaitRaises) => (BoxIsAttached(page') /\ page'.rl)]_vars

\* Verify was clicked and the wait after it found the rate-limit banner.
C32_Witness ==
    /\ pc = "done"
    /\ clicked = "verify"
    /\ outcome = "RecaptchaRateLimitError"
    /\ page.rl

\* ---------------------------------------------------------------- C33
\* An attempt starts: the round counter goes up.
AttemptStarts == rounds' = rounds + 1

\* C33 as claimed: at the start of every solve_recaptcha call and of every
\* attempt both the token and the stored payload are cleared.
C33_TokenAndPayloadReset ==
    /\ [][SolveCall => (token' = None /\ payload' = None)]_vars
    /\ [][AttemptStarts => (token' = None /\ payload' = None)]_vars

\* C33 as amended: the token is cleared at the start of every call that
\* passes the API-key check and at the start of every attempt.  The payload
\* is not cleared at those points: a call leaves it as it is, the fetched
\* image replaces it before the first attempt of an image solve (so that
\* the first classification of a call is of that image, not of a payload
\* captured before the call), and a later attempt starts with the payload
\* the end of the attempt before left.
C33_TokenResetPayloadKept ==
    /\ [][\A a \in CallArgs :
             (solve_recaptcha(a) /\ ~(a.image_challenge /\ ~conf.key)) =>
                 (token' = None /\ payload' = payload)]_vars
    /\ [][AttemptStarts =>
             /\ token' = None
             /\ payload' = IF pc = "switch" /\ image_challenge
                            THEN Some(FetchedImage)
                            ELSE payload]_vars
    /\ []((pc = "image_classify" /\ rounds = 1 /\ classified = "unasked") =>
             payload = Some(FetchedImage))

\* The first attempt of an audio solve has started without a token while a
\* payload captured before the call is still stored.
C33_Witness ==
    /\ ~image_challenge
    /\ rounds = 1
    /\ pc = "audio_get_url"
    /\ token = None
    /\ payload = Some([ url |-> PayloadUrl, body |-> << >> ])

\* ---------------------------------------------------------------- C34
\* C34: solve_recaptcha clicks the checkbox of the located widget only when
\* the checkbox is visible and unchecked: a widget whose checkbox is visible
\* and already checked gets no checkbox click.
C34_ClicksUncheckedCheckboxOnly ==
    [][(CheckRateLimit /\ clicked' = "checkbox" /\ pc' = "checkbox_wait") =>
          (page'.cbVis /\ ~page'.cbChk)]_vars

\* ---------------------------------------------------------------- C35
\* C35: within one solve_recaptcha call with budget N the modality solver is
\* started at most N times; the remaining budget changes only at the end of
\* a round that leaves the widget attached, a challenge visible and the
\* challenge unsolved, where it drops by exactly one (a failed
\* transcription, a no-match classification and a skip/next click leave it
\* alone); and a round only starts on a positive remaining budget.
C35_AttemptAccounting ==
    /\ [](rounds <= budget)
    /\ []((rounds > 0 /\ pc # "done") => attempts = budget - (rounds - 1))
    /\ [][(pc # "idle" /\ attempts' # attempts) =>
             /\ RoundEnd
             /\ ~RoundIsOver(page')
             /\ attempts' = attempts - 1]_vars
    /\ [][(RoundEnd /\ ~RoundIsOver(page')) => attempts' = attempts - 1]_vars
    /\ [][AttemptStarts => attempts' > 0]_vars

\* The second attempt of an audio solve with budget 2 is under way, one
\* attempt is left, and a transcription of this attempt has failed.
C35_Witness ==
    /\ budget = 2
    /\ rounds = 2
    /\ attempts = 1
    /\ failures = 1
    /\ pc = "audio_get_url"

\* ---------------------------------------------------------------- C36
\* The widget instance a frame belongs to: its name without the
\* two-character prefix ("a-" of an anchor frame, "c-" of a bframe).
SameInstance(anchor, bframe) == FrameId(anchor.name) = FrameId(bframe.name)

\* The pairs of a list of pairs.
PairsOf(pairs) == { pairs[k] : k \in 1 .. Len(pairs) }

C37_ReturnsTokenOfLatestReset ==
    /\ []((async_pc = "done" /\ async_outcome = "returned") => ~outdated)
    /\ [][overtaken' < overtaken => async_token' = async_token]_vars

\* ---------------------------------------------------------------- C38
\* The reload responses whose text holds a token.
TokenReloads ==
    { r \in PageResponses : UrlSearch("reload", r.url) /\ TokenMatch(r.body) # None }

\* C38: the v3 solve_recaptcha discards a token captured before the call:
\* the call starts without a token, while it polls the token is written only
\* by the callback handling a reload response that holds one, the call
\* returns that token, and when the deadline passes without one it raises
\* RecaptchaTimeoutError, whatever the listener captured before the call.
C38_DiscardsEarlierToken ==
    /\ [][SolveCallV3 => token' = None]_vars
    /\ [][(kind = "v3" /\ pc = "v3_poll" /\ token' # token) =>
             \E r \in TokenReloads :
                 /\ listening
                 /\ token' = TokenMatch(r.body)
                 /\ Delivered(r)]_vars
    /\ [][(kind = "v3" /\ pc = "v3_poll" /\ pc' = "done" /\ token # None) =>
             outcome' = "returned" /\ retval' = token]_vars
    /\ [][(kind = "v3" /\ pc = "v3_poll" /\ pc' = "done" /\ token = None) =>
             /\ DeadlinePassed(elapsed, timeout)
             /\ outcome' = "RecaptchaTimeoutError"]_vars

\* A v3 call has timed out although the listener had captured a token
\* before the call began: the last response handled left a token stored.
C38_Witness ==
    /\ kind = "v3"
    /\ pc = "done"
    /\ outcome = "RecaptchaTimeoutError"
    /\ handled.token # None
    /\ token = None

\* ---------------------------------------------------------------- C39
\* C39: the flag of the v3 request blocker equals the registration of the
\* route hook: the hook is registered at most once, and exactly when the flag
\* is set; adding when added registers nothing more, removing when not added
\* does nothing, __enter__ registers the hook only when block_token_requests
\* was given, and after close() the hook is not registered.
C39_FlagIsRegistration ==
    /\ [](kind = "v3" => routes <= 1 /\ (route_callback_added <=> routes = 1))
    /\ [][(AddTokenRequestBlocker /\ route_callback_added) =>
             routes' = routes /\ route_callback_added']_vars
    /\ [][(AddTokenRequestBlocker /\ ~route_callback_added) =>
             routes' = 1 /\ route_callback_added']_vars
    /\ [][(RemoveTokenRequestBlocker /\ ~route_callback_added) =>
             routes' = routes /\ ~route_callback_added']_vars
    /\ [][(Enter /\ conf.block_token_requests) => routes' = 1]_vars
    /\ [][(Enter /\ ~conf.block_token_requests) => routes' = routes]_vars
    /\ [][(Close /\ kind = "v3") => routes' = 0 /\ ~route_callback_added']_vars

\* A v3 solver constructed with block_token_requests whose hook is
\* registered once and has aborted a request that carries the token.
C39_Witness ==
    /\ kind = "v3"
    /\ conf.block_token_requests
    /\ route_callback_added
    /\ routes = 1
    /\ routed = << "abort" >>

\* ---------------------------------------------------------------- C40
\* C40: an argument of zero counts as not given.  solve_recaptcha(attempts=0)
\* on the v2 solver runs with the constructor's budget of attempts and never
\* raises RecaptchaSolveError without a round; solve_recaptcha(timeout=0) on
\* the v3 solver waits for the constructor's timeout and does not time out
\* at its first poll.
C40_ZeroIsNotGiven ==
    /\ [][(ZeroCallV2 /\ outcome' # "CapSolverError") =>
             attempts' = conf.attempts /\ budget' = conf.attempts]_vars
    /\ []((kind = "v2" /\ outcome = "RecaptchaSolveError") => rounds = conf.attempts)
    /\ [][ZeroCallV3 => timeout' = conf.timeout]_vars
    /\ [][(kind = "v3" /\ pc = "v3_poll" /\ outcome' = "RecaptchaTimeoutError") =>
             elapsed >= conf.timeout /\ elapsed > 0]_vars

\* A v2 call with attempts=0 has started its second round.
C40_Witness ==
    /\ kind = "v2"
    /\ rounds = 2
    /\ budget = conf.attempts
    /\ attempts = 1
====
